---- MODULE Spec2Model ----
(***************************************************************************)
(* Region tracking and change classification of paste-review-reminder.     *)
(*                                                                         *)
(* The model follows the newest variant of every class in the repository:  *)
(*   RegionManager      src/unnamed/part_007                               *)
(*   ChangeTracker      src/unnamed/part_002                               *)
(*   event handlers     src/unnamed/part_005 (lines 1-290)                 *)
(*   SaveScheduler      src/unnamed/part_005 (lines 568-639)               *)
(*   SaveManager        src/src/changeDetector.ts (lines 108-304)          *)
(*   ShadowTextManager  src/src/types.ts (lines 116-203)                   *)
(*   command handlers   src/src/types.ts (lines 49-114)                    *)
(*                                                                         *)
(* Representation.  A text is the sequence of its lines (text.split("\n")),*)
(* each line a string without line breaks; the empty text is <<"">>.  A    *)
(* Map is a function whose DOMAIN is the set of keys present.               *)
(*                                                                         *)
(* Object identity.  A region object is the record [id, startLine,         *)
(* endLine, obj].  The field obj names the JavaScript object: the objects  *)
(* made in this session carry the number their id was made from, which is  *)
(* fresh for every object, and the objects parsed from the manifest file   *)
(* carry negative numbers, one per object, because such an object can have *)
(* the id of an object of this session without being it.  Two records with *)
(* the same obj are one object, and an in-place update reaches both.  A    *)
(* manifest entry is [documentPath, checksum, regions, storeKey]; storeKey *)
(* is the key under which RegionManager.regions holds the very array the   *)
(* entry holds, "" when the store holds another array or none.             *)
(***************************************************************************)
EXTENDS Integers, Sequences, FiniteSets, TLC

VARIABLES
  regions,         \* RegionManager.regions : docKey -> Region[]
  nextId,          \* RegionManager.nextId
  trackingStates,  \* ChangeTracker.trackingStates : docKey -> ChangeTrackingState
  timers,          \* pending setTimeout callbacks : handle -> closure
  nextTimer,       \* next timer handle
  saveTimers,      \* SaveScheduler.saveTimers : key -> handle
  manifest,        \* SaveManager.manifest.files
  shadowDocs,      \* ShadowTextManager.shadowDocs : key -> text
  docs,            \* open text documents : key -> buffer text
  disk,            \* files on disk : key -> text
  now,             \* Date.now() in milliseconds
  config,          \* workspace configuration "pasteReviewReminder"
  last,            \* the event handled by the last step and what it observed
  steps            \* number of events handled so far

vars == <<regions, nextId, trackingStates, timers, nextTimer, saveTimers,
          manifest, shadowDocs, docs, disk, now, config, last, steps>>

----------------------------------------------------------------------------
(* Bounds of the exploration *)

MaxSteps == 3
MaxDocLines == 8
MaxLineLength == 6
MaxRegions == 2
MaxLine == 3

(* Program constants *)

TRACKING_TIMEOUT == 100
contextWindow == 5
autoSaveDelay == 3000

----------------------------------------------------------------------------
(* Generic helpers *)

Max(a, b) == IF a >= b THEN a ELSE b
Min(a, b) == IF a <= b THEN a ELSE b

Range(s) == {s[i] : i \in DOMAIN s}

MapSet(m, k, v) == [x \in (DOMAIN m) \cup {k} |-> IF x = k THEN v ELSE m[x]]
MapDelete(m, k) == [x \in (DOMAIN m) \ {k} |-> m[x]]
EmptyMap == [x \in {} |-> 0]

RECURSIVE SumLen(_)
SumLen(ls) == IF ls = <<>> THEN 0 ELSE Len(ls[1]) + SumLen(Tail(ls))

\* lines.join("\n").length
JoinLength(ls) == IF ls = <<>> THEN 0 ELSE SumLen(ls) + (Len(ls) - 1)

\* text.split("\n").length
SplitLength(text) == Len(text)

\* text === ""
IsEmptyText(text) == text = <<"">>

\* the lines a region covers
LinesOf(r) == r.startLine .. r.endLine

----------------------------------------------------------------------------
(* RegionManager (src/unnamed/part_007) *)

\* `region-${n}`
RegionId(n) == "region-" \o ToString(n)

\* RegionManager.getRegions: this.regions.get(docKey) || []
getRegions(store, docKey) ==
  IF docKey \in DOMAIN store THEN store[docKey] ELSE <<>>

\* removeRangeFromRegion with the piece in front of the range keeping the
\* identifier of the region it was cut from
removeRangeFromRegion_keepsId(region, rangeStartLine, rangeEndLine, nid) ==
  IF rangeEndLine < region.startLine \/ rangeStartLine > region.endLine
  THEN [removed |-> FALSE, newRegions |-> <<>>, nextId |-> nid]
  ELSE
    LET removeStart == Max(rangeStartLine, region.startLine)
        removeEnd   == Min(rangeEndLine, region.endLine)
        hasBefore   == region.startLine < removeStart
        hasAfter    == region.endLine > removeEnd
        before      == IF hasBefore
                       THEN <<[id |-> region.id,
                               startLine |-> region.startLine,
                               endLine |-> removeStart - 1,
                               obj |-> region.obj]>>
                       ELSE <<>>
        after       == IF hasAfter
                       THEN <<[id |-> RegionId(nid),
                               startLine |-> removeEnd + 1,
                               endLine |-> region.endLine,
                               obj |-> nid]>>
                       ELSE <<>>
        nid2        == IF hasAfter THEN nid + 1 ELSE nid
    IN  [removed |-> TRUE, newRegions |-> before \o after, nextId |-> nid2]

\* RegionManager.removeRangeFromRegion
removeRangeFromRegion(region, rangeStartLine, rangeEndLine, nid) ==
  IF rangeEndLine < region.startLine \/ rangeStartLine > region.endLine
  THEN [removed |-> FALSE, newRegions |-> <<>>, nextId |-> nid]
  ELSE
    LET removeStart == Max(rangeStartLine, region.startLine)
        removeEnd   == Min(rangeEndLine, region.endLine)
        hasBefore   == region.startLine < removeStart
        hasAfter    == region.endLine > removeEnd
        before      == IF hasBefore
                       THEN <<[id |-> RegionId(nid),
                               startLine |-> region.startLine,
                               endLine |-> removeStart - 1,
                               obj |-> nid]>>
                       ELSE <<>>
        nid2        == IF hasBefore THEN nid + 1 ELSE nid
        after       == IF hasAfter
                       THEN <<[id |-> RegionId(nid2),
                               startLine |-> removeEnd + 1,
                               endLine |-> region.endLine,
                               obj |-> nid2]>>
                       ELSE <<>>
        nid3        == IF hasAfter THEN nid2 + 1 ELSE nid2
    IN  [removed |-> TRUE, newRegions |-> before \o after, nextId |-> nid3]

\* one turn of the for-loop of removeLinesFromRegions that drops the
\* remaining pieces of a touched region
pushResult_dropsPieces(acc, region, result) ==
  IF result.removed
  THEN [modified |-> TRUE, newRegions |-> acc.newRegions, nextId |-> result.nextId]
  ELSE [acc EXCEPT !.newRegions = Append(@, region)]

\* one turn of the for-loop of removeLinesFromRegions: result is what
\* removeRangeFromRegion returned for the region, acc holds modified,
\* newRegions and this.nextId
pushResult(acc, region, result) ==
  IF result.removed
  THEN [modified |-> TRUE,
        newRegions |-> acc.newRegions \o result.newRegions,
        nextId |-> result.nextId]
  ELSE [acc EXCEPT !.newRegions = Append(@, region)]

\* the for-loop of removeLinesFromRegions over docRegions
RECURSIVE removeLoop(_, _, _, _)
removeLoop(docRegions, rangeStartLine, rangeEndLine, acc) ==
  IF docRegions = <<>>
  THEN acc
  ELSE removeLoop(Tail(docRegions), rangeStartLine, rangeEndLine,
                  pushResult(acc, docRegions[1],
                             removeRangeFromRegion(docRegions[1], rangeStartLine,
                                                   rangeEndLine, acc.nextId)))

\* the line delta with the replaced lines left out
LineDelta_insertedOnly(rangeStartLine, rangeEndLine, text) ==
  SplitLength(text) - 1

\* line delta of updateRegionsAfterEdit
LineDelta(rangeStartLine, rangeEndLine, text) ==
  (SplitLength(text) - 1) - (rangeEndLine - rangeStartLine)

\* the loop body moving regions against the direction of the edit
shiftRegion_signFlipped(region, changeEndLine, lineDelta) ==
  IF region.startLine > changeEndLine
  THEN [region EXCEPT !.startLine = @ - lineDelta, !.endLine = @ - lineDelta]
  ELSE IF region.endLine > changeEndLine
       THEN [region EXCEPT !.endLine = @ - lineDelta]
       ELSE region

\* the loop body of updateRegionsAfterEdit moving both bounds of a region
\* that spans the change point
shiftRegion_movesStraddle(region, changeEndLine, lineDelta) ==
  IF region.endLine > changeEndLine
  THEN [region EXCEPT !.startLine = @ + lineDelta, !.endLine = @ + lineDelta]
  ELSE region

\* the body of the for-loop of updateRegionsAfterEdit for one region object
shiftRegion(region, changeEndLine, lineDelta) ==
  IF region.startLine > changeEndLine
  THEN [region EXCEPT !.startLine = @ + lineDelta, !.endLine = @ + lineDelta]
  ELSE IF region.endLine > changeEndLine
       THEN [region EXCEPT !.endLine = @ + lineDelta]
       ELSE region

----------------------------------------------------------------------------
(* The mutable state of the extension, threaded through the methods as a    *)
(* record S with the fields regions, nextId, trackingStates, timers,        *)
(* nextTimer, saveTimers, manifest, shadowDocs and log.  S.log lists what    *)
(* a handler did, in order: addRegion calls, onDidChangeRegions             *)
(* notifications ("fire"), onRegionsCreated callbacks ("created"), manifest *)
(* writes ("save") and debounced saves being armed ("schedule").            *)

LogEntry(op, key, startLine, endLine) ==
  [op |-> op, key |-> key, startLine |-> startLine, endLine |-> endLine]

Log(S, op, key) == [S EXCEPT !.log = Append(@, LogEntry(op, key, -1, -1))]

\* this._onDidChangeRegions.fire(documentUri)
fire(S, key) == Log(S, "fire", key)

\* the manifest entries after the store moved the array it held under key
\* from to key to, or dropped it (to = "")
Rebind(files, from, to) ==
  [i \in DOMAIN files |->
     IF files[i].storeKey = from THEN [files[i] EXCEPT !.storeKey = to] ELSE files[i]]

\* RegionManager.addRegion: the region is pushed onto the array the store
\* holds, so a manifest entry holding that array has it too
addRegion(S, docKey, startLine, endLine) ==
  LET region == [id |-> RegionId(S.nextId), startLine |-> startLine,
                 endLine |-> endLine, obj |-> S.nextId]
      S1 == [S EXCEPT
               !.regions = MapSet(@, docKey, Append(getRegions(S.regions, docKey), region)),
               !.manifest = [i \in DOMAIN S.manifest |->
                               IF S.manifest[i].storeKey = docKey
                               THEN [S.manifest[i] EXCEPT !.regions = Append(@, region)]
                               ELSE S.manifest[i]],
               !.nextId = @ + 1,
               !.log = Append(@, LogEntry("addRegion", docKey, startLine, endLine))]
  IN  fire(S1, docKey)

\* the end of removeLinesFromRegions reporting a modification in any case
installRegions_alwaysModified(S, docKey, r) ==
  [S |-> [S EXCEPT !.regions = MapSet(@, docKey, r.newRegions),
                   !.manifest = Rebind(@, docKey, ""),
                   !.nextId = r.nextId,
                   !.log = Append(@, LogEntry("fire", docKey, -1, -1))],
   modified |-> TRUE]

\* the end of removeLinesFromRegions: this.regions.set(docKey, newRegions),
\* a new array, the notification if modified, and the return value
installRegions(S, docKey, r) ==
  [S |-> [S EXCEPT !.regions = MapSet(@, docKey, r.newRegions),
                   !.manifest = Rebind(@, docKey, ""),
                   !.nextId = r.nextId,
                   !.log = IF r.modified
                           THEN Append(@, LogEntry("fire", docKey, -1, -1))
                           ELSE @],
   modified |-> r.modified]

\* RegionManager.removeLinesFromRegions; the return value is field modified
removeLinesFromRegions(S, docKey, rangeStartLine, rangeEndLine) ==
  IF docKey \notin DOMAIN S.regions \/ S.regions[docKey] = <<>>
  THEN [S |-> S, modified |-> FALSE]
  ELSE installRegions(S, docKey,
                      removeLoop(S.regions[docKey], rangeStartLine, rangeEndLine,
                                 [modified |-> FALSE, newRegions |-> <<>>,
                                  nextId |-> S.nextId]))

\* the region objects a list holds
ObjectsOf(regs) == {regs[i].obj : i \in DOMAIN regs}

\* what a list shows after the in-place update of the region objects objs:
\* the objects among them that it holds have the new bounds
Mutate(regs, objs, changeEndLine, lineDelta) ==
  [i \in DOMAIN regs |->
     IF regs[i].obj \in objs
     THEN shiftRegion(regs[i], changeEndLine, lineDelta)
     ELSE regs[i]]

\* updateRegionsAfterEdit shifting the regions of every document
updateRegionsAfterEdit_allDocuments(S, docKey, rangeStartLine, rangeEndLine, text) ==
  IF LineDelta(rangeStartLine, rangeEndLine, text) = 0
  THEN S
  ELSE [S EXCEPT
          !.regions = [k \in DOMAIN S.regions |->
                         [i \in DOMAIN S.regions[k] |->
                            shiftRegion(S.regions[k][i], rangeEndLine,
                                        LineDelta(rangeStartLine, rangeEndLine, text))]]]

\* RegionManager.updateRegionsAfterEdit: the region objects of the document
\* are updated in place, so a manifest entry that holds some of these very
\* objects shows their new bounds
updateRegionsAfterEdit(S, docKey, rangeStartLine, rangeEndLine, text) ==
  LET lineDelta == LineDelta(rangeStartLine, rangeEndLine, text)
  IN  IF docKey \notin DOMAIN S.regions \/ S.regions[docKey] = <<>> \/ lineDelta = 0
      THEN S
      ELSE
        [S EXCEPT
           !.regions[docKey] =
             [i \in DOMAIN @ |-> shiftRegion(@[i], rangeEndLine, lineDelta)],
           !.manifest = [i \in DOMAIN S.manifest |->
                           [S.manifest[i] EXCEPT !.regions =
                              Mutate(@, ObjectsOf(S.regions[docKey]), rangeEndLine,
                                     lineDelta)]]]

\* RegionManager.clearDocument
clearDocument(S, docKey) ==
  LET hadRegions == docKey \in DOMAIN S.regions /\ Len(S.regions[docKey]) > 0
      S1 == [S EXCEPT !.regions = MapDelete(@, docKey),
                      !.manifest = Rebind(@, docKey, "")]
  IN  IF hadRegions THEN fire(S1, docKey) ELSE S1

\* RegionManager.clearAll: this.regions.clear(), without a notification
regionManagerClearAll(S) ==
  [S EXCEPT !.regions = EmptyMap,
            !.manifest = [i \in DOMAIN @ |-> [@[i] EXCEPT !.storeKey = ""]]]

\* RegionManager.updateDocumentUri: the array moves to newKey, replacing the
\* array held there, and the entry of oldKey is deleted
updateDocumentUri(S, oldKey, newKey) ==
  IF oldKey \notin DOMAIN S.regions
  THEN S
  ELSE [S EXCEPT !.regions = MapDelete(MapSet(@, newKey, S.regions[oldKey]), oldKey),
                 !.manifest = Rebind(Rebind(@, newKey, ""), oldKey,
                                     IF oldKey = newKey THEN "" ELSE newKey)]

\* RegionManager.setRegionsForDocument: a copy [...regions] is installed
setRegionsForDocument(S, docKey, regs) ==
  LET S1 == [S EXCEPT !.regions = MapSet(@, docKey, regs),
                      !.manifest = Rebind(@, docKey, "")]
  IN  IF Len(regs) > 0 THEN fire(S1, docKey) ELSE S1

\* restoreRegionsForDocument installing the saved regions without the last
restoreRegionsForDocument_dropsLast(S, docKey, regs) ==
  [S EXCEPT !.regions = MapSet(@, docKey, SubSeq(regs, 1, Len(regs) - 1)),
            !.manifest = Rebind(@, docKey, "")]

\* RegionManager.restoreRegionsForDocument: called by the handlers but not
\* defined in the sources; it installs the saved regions verbatim without a
\* notification: the saved region objects, in an array of the store's own
\* as setRegionsForDocument makes it
restoreRegionsForDocument(S, docKey, regs) ==
  [S EXCEPT !.regions = MapSet(@, docKey, regs),
            !.manifest = Rebind(@, docKey, "")]

----------------------------------------------------------------------------
(* SaveManager (src/src/changeDetector.ts, lines 108-304).  Every document  *)
(* lies inside the workspace, so its key is also its relative path.         *)

\* SaveManager.computeChecksum: sha256 of the content, taken as collision free
computeChecksum(content) == <<"sha256", content>>

\* the manifest entries whose path is not relativePath
OtherFiles(files, relativePath) ==
  SelectSeq(files, LAMBDA f : f.documentPath # relativePath)

\* this.manifest.files.find(f => f.documentPath === relativePath): its index, 0 if none
FindFile(files, relativePath) ==
  IF \E i \in DOMAIN files : files[i].documentPath = relativePath
  THEN CHOOSE i \in DOMAIN files :
         /\ files[i].documentPath = relativePath
         /\ \A j \in DOMAIN files : files[j].documentPath = relativePath => i <= j
  ELSE 0

\* SaveManager.getRegions
savedRegions(files, relativePath) ==
  IF FindFile(files, relativePath) = 0
  THEN <<>>
  ELSE files[FindFile(files, relativePath)].regions

\* SaveManager.hasMatchingChecksum
hasMatchingChecksum(files, relativePath, content) ==
  /\ FindFile(files, relativePath) # 0
  /\ files[FindFile(files, relativePath)].checksum = computeChecksum(content)

\* saveFileRegions writing the entry whether or not there are regions
saveFileRegions_keepsEmpty(S, key, regs, dsk) ==
  LET S1 == Log(S, "save", key)
  IN  IF key \notin DOMAIN dsk
      THEN [S1 EXCEPT !.manifest = OtherFiles(@, key)]
      ELSE [S1 EXCEPT !.manifest =
              Append(OtherFiles(S.manifest, key),
                     [documentPath |-> key, checksum |-> computeChecksum(dsk[key]),
                      regions |-> regs,
                      storeKey |-> IF regs = getRegions(S.regions, key)
                                   THEN key ELSE ""])]

\* SaveManager.saveFileRegions; files on disk are given by dsk.  The entry
\* holds the array it was given, which is the store's own array when regs
\* is what getRegions returned for the document
saveFileRegions(S, key, regs, dsk) ==
  LET S1 == Log(S, "save", key)
  IN  IF key \notin DOMAIN dsk
      THEN [S1 EXCEPT !.manifest = OtherFiles(@, key)]
      ELSE
        LET checksum   == computeChecksum(dsk[key])
            otherFiles == OtherFiles(S.manifest, key)
        IN  [S1 EXCEPT !.manifest =
               IF Len(regs) > 0
               THEN Append(otherFiles,
                           [documentPath |-> key, checksum |-> checksum, regions |-> regs,
                            storeKey |-> IF regs = getRegions(S.regions, key)
                                         THEN key ELSE ""])
               ELSE otherFiles]

\* SaveManager.updateFilePath
updateFilePath(S, oldPath, newPath) ==
  LET fileIndex == FindFile(S.manifest, oldPath)
  IN  IF fileIndex # 0
      THEN [S EXCEPT !.manifest[fileIndex].documentPath = newPath]
      ELSE S

----------------------------------------------------------------------------
(* SaveScheduler (src/unnamed/part_005, lines 568-639) *)

\* clearTimeout(handle): a handle that already fired or was cleared is ignored
clearTimeout(S, handle) == [S EXCEPT !.timers = MapDelete(@, handle)]

\* setTimeout(closure, delay): the new handle is S.nextTimer of the argument
setTimeout(S, kind, key, due) ==
  [S EXCEPT !.timers = MapSet(@, S.nextTimer, [kind |-> kind, key |-> key, due |-> due]),
            !.nextTimer = @ + 1]

\* saveNow forgetting the timer without writing the entry
saveNow_withoutWrite(S, key, dsk) ==
  [S EXCEPT !.saveTimers = MapDelete(@, key)]

\* SaveScheduler.saveNow
saveNow(S, key, dsk) ==
  LET S1 == saveFileRegions(S, key, getRegions(S.regions, key), dsk)
  IN  [S1 EXCEPT !.saveTimers = MapDelete(@, key)]

\* scheduleSave forgetting the pending timer without cancelling it
scheduleSave_keepsTimer(S, key, immediate, dsk, t) ==
  LET S1 == [S EXCEPT !.saveTimers = MapDelete(@, key)]
  IN  IF immediate
      THEN saveNow(S1, key, dsk)
      ELSE [setTimeout(Log(S1, "schedule", key), "save", key, t + autoSaveDelay) EXCEPT
              !.saveTimers = MapSet(@, key, S1.nextTimer)]

\* SaveScheduler.scheduleSave
scheduleSave(S, key, immediate, dsk, t) ==
  LET S1 == IF key \in DOMAIN S.saveTimers
            THEN [clearTimeout(S, S.saveTimers[key]) EXCEPT
                    !.saveTimers = MapDelete(@, key)]
            ELSE S
  IN  IF immediate
      THEN saveNow(S1, key, dsk)
      ELSE [setTimeout(Log(S1, "schedule", key), "save", key, t + autoSaveDelay) EXCEPT
              !.saveTimers = MapSet(@, key, S1.nextTimer)]

\* SaveScheduler.clearTimer
clearTimer(S, key) ==
  IF key \in DOMAIN S.saveTimers
  THEN [clearTimeout(S, S.saveTimers[key]) EXCEPT !.saveTimers = MapDelete(@, key)]
  ELSE S

\* SaveScheduler.clearAll
saveSchedulerClearAll(S) ==
  [S EXCEPT !.timers = [h \in DOMAIN @ \ Range(S.saveTimers) |-> @[h]],
            !.saveTimers = EmptyMap]

----------------------------------------------------------------------------
(* ShadowTextManager (src/src/types.ts, lines 116-203) *)

\* ShadowTextManager.dispose: clearAll()
shadowClearAll(S) == [S EXCEPT !.shadowDocs = EmptyMap]

\* ShadowTextManager.updateDocumentUri: an empty shadow text is falsy and stays
shadowUpdateDocumentUri(S, oldKey, newKey) ==
  IF oldKey \in DOMAIN S.shadowDocs /\ ~IsEmptyText(S.shadowDocs[oldKey])
  THEN [S EXCEPT !.shadowDocs = MapDelete(MapSet(@, newKey, S.shadowDocs[oldKey]), oldKey)]
  ELSE S

----------------------------------------------------------------------------
(* ChangeTracker (src/unnamed/part_002).  A content change is the record    *)
(* [range |-> [start |-> [line, character], end |-> [line, character]],     *)
(*  text |-> lines]; a document is [key, lines].                            *)

\* the feature flag imported from eventHandlers; its definition is not in the
\* sources, the reconciler it enables is part of the described system
ENABLE_REVIEWED_PASTE_CHECK == TRUE

\* getContextualKey(lines, index), index counted from 0
getContextualKey(lines, index) ==
  LET lineContent  == lines[index + 1]
      aboveStart   == Max(0, index - contextWindow)
      aboveLines   == SubSeq(lines, aboveStart + 1, index)
      belowEnd     == Min(Len(lines), index + 1 + contextWindow)
      belowLines   == SubSeq(lines, index + 2, belowEnd)
      aboveHash    == JoinLength(aboveLines)
      belowHash    == JoinLength(belowLines)
  IN  lineContent \o "-" \o ToString(aboveHash) \o "-" \o ToString(belowHash)

\* ChangeTracker.isPaste
isPaste_strict(change, cfg) == SplitLength(change.text) > cfg.minimumPasteLines

isPaste(change, cfg) == SplitLength(change.text) >= cfg.minimumPasteLines

\* ChangeTracker.isFullFilePaste: pastedLines / (lineCount || 1) > 0.8
isFullFilePaste(lineCount, change) ==
  LET pastedLines == SplitLength(change.text)
      total       == IF lineCount = 0 THEN 1 ELSE lineCount
  IN  pastedLines * 10 > 8 * total

\* Array.from(lines).sort((a, b) => a - b)
RECURSIVE SortedLines(_)
SortedLines(lines) ==
  IF lines = {} THEN <<>>
  ELSE LET m == CHOOSE x \in lines : \A y \in lines : x <= y
       IN  <<m>> \o SortedLines(lines \ {m})

\* the for-loop of createRegionsFromLines from index i (counted from 0) on,
\* followed by the trailing "add the last region"
RECURSIVE createLoop(_, _, _, _, _, _, _)
createLoop(S, key, sortedLines, i, regionStart, regionEnd, minRegionSize) ==
  IF i >= Len(sortedLines)
  THEN IF regionEnd - regionStart + 1 >= minRegionSize
       THEN addRegion(S, key, regionStart, regionEnd)
       ELSE S
  ELSE
    LET currentLine == sortedLines[i + 1]
    IN  IF currentLine = regionEnd + 1
        THEN createLoop(S, key, sortedLines, i + 1, regionStart, currentLine, minRegionSize)
        ELSE
          LET S1 == IF regionEnd - regionStart + 1 >= minRegionSize
                    THEN addRegion(S, key, regionStart, regionEnd)
                    ELSE S
          IN  createLoop(S1, key, sortedLines, i + 1, currentLine, currentLine, minRegionSize)

\* createRegionsFromLines adding a region for every run, whatever its size
createRegionsFromLines_anySize(S, key, lines, minRegionSize) ==
  IF lines = {}
  THEN S
  ELSE createLoop(S, key, SortedLines(lines), 1, SortedLines(lines)[1],
                  SortedLines(lines)[1], 1)

\* ChangeTracker.createRegionsFromLines
createRegionsFromLines(S, key, lines, minRegionSize) ==
  IF lines = {}
  THEN S
  ELSE LET sortedLines == SortedLines(lines)
       IN  createLoop(S, key, sortedLines, 1, sortedLines[1], sortedLines[1], minRegionSize)

\* the callback installed by activate (src/src/extension.ts:324-326)
onRegionsCreatedCallback(S, key, dsk, t) ==
  scheduleSave(Log(S, "created", key), key, TRUE, dsk, t)

\* Step 1 of handlePaste with the loop over the old lines starting at 1
reviewedContentKeys_skipsFirst(oldDocumentLines, oldRegions) ==
  {getContextualKey(oldDocumentLines, i) :
     i \in {j \in 1 .. Len(oldDocumentLines) - 1 :
              ~\E r \in DOMAIN oldRegions :
                 j >= oldRegions[r].startLine /\ j <= oldRegions[r].endLine}}

\* Step 1 of handlePaste: the contextual keys of the reviewed old lines
reviewedContentKeys(oldDocumentLines, oldRegions) ==
  {getContextualKey(oldDocumentLines, i) :
     i \in {j \in 0 .. Len(oldDocumentLines) - 1 :
              ~\E r \in DOMAIN oldRegions :
                 j >= oldRegions[r].startLine /\ j <= oldRegions[r].endLine}}

\* Step 2 of handlePaste: the pasted lines whose key was not reviewed
linesToHighlight(pastedContentLines, startLineOfPaste, reviewedKeys) ==
  {startLineOfPaste + i :
     i \in {j \in 0 .. Len(pastedContentLines) - 1 :
              getContextualKey(pastedContentLines, j) \notin reviewedKeys}}

\* the condition of handlePaste that selects the reconciler; oldText is
\* [defined, text] and oldRegions [defined, regs], an argument left out
\* being undefined
UsesReconciler(document, change, oldText, oldRegions) ==
  /\ ENABLE_REVIEWED_PASTE_CHECK
  /\ oldText.defined
  /\ oldRegions.defined
  /\ isFullFilePaste(Len(document.lines), change)

\* handlePaste with the line count added to the start line as it is
pasteEndLine_plusCount(startLine, pastedLineCount) == startLine + pastedLineCount

\* handlePaste: const endLine = startLine + pastedLineCount - 1
pasteEndLine(startLine, pastedLineCount) == startLine + pastedLineCount - 1

\* handlePaste giving the reconciler's lines the paste threshold as
\* minimum region size
handlePaste_withThreshold(S, document, change, oldText, oldRegions, cfg, dsk, t) ==
  IF UsesReconciler(document, change, oldText, oldRegions)
  THEN
    IF linesToHighlight(change.text, change.range.start.line,
                        reviewedContentKeys(oldText.text, oldRegions.regs)) # {}
    THEN onRegionsCreatedCallback(
           createRegionsFromLines(
             S, document.key,
             linesToHighlight(change.text, change.range.start.line,
                              reviewedContentKeys(oldText.text, oldRegions.regs)),
             cfg.minimumPasteLines),
           document.key, dsk, t)
    ELSE S
  ELSE
    onRegionsCreatedCallback(
      createRegionsFromLines(
        S, document.key,
        change.range.start.line ..
          pasteEndLine(change.range.start.line, SplitLength(change.text)),
        cfg.minimumPasteLines),
      document.key, dsk, t)

\* ChangeTracker.handlePaste; oldText is [defined, text], oldRegions is
\* [defined, regs]
handlePaste(S, document, change, oldText, oldRegions, cfg, dsk, t) ==
  IF UsesReconciler(document, change, oldText, oldRegions)
  THEN
    LET toHighlight == linesToHighlight(change.text, change.range.start.line,
                                        reviewedContentKeys(oldText.text, oldRegions.regs))
    IN  IF toHighlight # {}
        THEN onRegionsCreatedCallback(
               createRegionsFromLines(S, document.key, toHighlight, 1),
               document.key, dsk, t)
        ELSE S
  ELSE
    LET startLine == change.range.start.line
        endLine   == pasteEndLine(startLine, SplitLength(change.text))
    IN  onRegionsCreatedCallback(
          createRegionsFromLines(S, document.key, startLine .. endLine,
                                 cfg.minimumPasteLines),
          document.key, dsk, t)

\* a fresh ChangeTrackingState
NewTrackingState(t) ==
  [isTracking |-> TRUE, startTime |-> t, totalCharacters |-> 0,
   affectedLines |-> {}, lastChangeTime |-> t, timeoutId |-> 0]

\* trackForFastTyping arming a new timer without clearing the pending one
trackForFastTyping_keepsTimer(S, docKey, change, t) ==
  LET state0 == IF docKey \notin DOMAIN S.trackingStates
                   \/ ~S.trackingStates[docKey].isTracking
                THEN NewTrackingState(t)
                ELSE S.trackingStates[docKey]
      startLine == change.range.start.line
      endLine   == change.range.start.line + SplitLength(change.text) - 1
      state1 == [state0 EXCEPT
                   !.totalCharacters = @ + JoinLength(change.text),
                   !.lastChangeTime = t,
                   !.affectedLines = @ \cup (startLine .. endLine),
                   !.timeoutId = S.nextTimer]
  IN  [setTimeout(S, "debounce", docKey, t + TRACKING_TIMEOUT) EXCEPT
         !.trackingStates = MapSet(@, docKey, state1)]

\* ChangeTracker.trackForFastTyping; timeoutId 0 stands for undefined
trackForFastTyping(S, docKey, change, t) ==
  LET state0 == IF docKey \notin DOMAIN S.trackingStates
                   \/ ~S.trackingStates[docKey].isTracking
                THEN NewTrackingState(t)
                ELSE S.trackingStates[docKey]
      S1     == IF state0.timeoutId # 0 THEN clearTimeout(S, state0.timeoutId) ELSE S
      startLine == change.range.start.line
      endLine   == change.range.start.line + SplitLength(change.text) - 1
      state1 == [state0 EXCEPT
                   !.totalCharacters = @ + JoinLength(change.text),
                   !.lastChangeTime = t,
                   !.affectedLines = @ \cup (startLine .. endLine),
                   !.timeoutId = S1.nextTimer]
  IN  [setTimeout(S1, "debounce", docKey, t + TRACKING_TIMEOUT) EXCEPT
         !.trackingStates = MapSet(@, docKey, state1)]

\* the speed test of endTracking: duration = (last - start) / 1000 seconds,
\* speed = duration > 0 ? totalCharacters / duration : 0, and
\* speed > typingSpeedThreshold, in IEEE 754 double precision.  Both
\* quotients are rounded to 53 significant bits.  When the exact speed
\* differs from the threshold the rounding does not change the comparison.
\* When it equals the threshold, the rounded speed is above it just when
\* elapsed / 1000 was rounded down by enough: with 2^k <= elapsed/1000 <
\* 2^(k+1) and 2^e <= threshold < 2^(e+1), the part of elapsed/1000 below its
\* 53rd bit is rem/125 of that bit, rem = (elapsed * 2^(49-k)) mod 125; it is
\* dropped when rem <= 62, and the quotient then passes the midpoint above
\* the threshold when 2 * (rem/125) * (threshold/2^e) >= (elapsed/1000)/2^k.
SpeedExceeds(state, typingSpeedThreshold) ==
  LET elapsed == state.lastChangeTime - state.startTime
      pow2mod[n \in 0 .. 59] == IF n = 0 THEN 1 ELSE (2 * pow2mod[n - 1]) % 125
      roundedAbove(k, e, rem) ==
        /\ rem > 0
        /\ rem <= 62
        /\ IF k >= 0
           THEN 16 * rem * typingSpeedThreshold * 2^k >= 2^e * elapsed
           ELSE 16 * rem * typingSpeedThreshold >= 2^e * elapsed * 2^(0 - k)
      aboveAtEquality(k) ==
        roundedAbove(k,
                     CHOOSE e \in 0 .. 29 :
                       2^e <= typingSpeedThreshold /\ typingSpeedThreshold < 2^(e + 1),
                     ((elapsed % 125) * pow2mod[49 - k]) % 125)
  IN  IF elapsed > 0
      THEN IF state.totalCharacters * 1000 # typingSpeedThreshold * elapsed
           THEN state.totalCharacters * 1000 > typingSpeedThreshold * elapsed
           ELSE /\ typingSpeedThreshold >= 1
                /\ aboveAtEquality(
                      IF elapsed >= 1000
                      THEN CHOOSE k \in 0 .. 21 :
                             2^k <= elapsed \div 1000 /\ elapsed \div 1000 < 2^(k + 1)
                      ELSE CHOOSE k \in (0 - 10) .. (0 - 1) :
                             1000 <= elapsed * 2^(0 - k) /\ elapsed * 2^(0 - k) < 2000)
      ELSE 0 > typingSpeedThreshold

\* the line test of endTracking accepting a window of exactly the threshold
LinesExceed_atLeast(lineCount, minimumStreamingLines) ==
  lineCount >= minimumStreamingLines

\* the line test of endTracking: lineCount > minimumStreamingLines
LinesExceed(lineCount, minimumStreamingLines) ==
  lineCount > minimumStreamingLines

\* endTracking closing the window without clearing its accumulators
endTracking_keepsAccumulators(S, docKey, cfg, dsk, t) ==
  IF docKey \notin DOMAIN S.trackingStates \/ ~S.trackingStates[docKey].isTracking
  THEN S
  ELSE
    LET state == S.trackingStates[docKey]
        lineCount == Cardinality(state.affectedLines)
        S1 == IF SpeedExceeds(state, cfg.typingSpeedThreshold)
                 /\ LinesExceed(lineCount, cfg.minimumStreamingLines)
              THEN onRegionsCreatedCallback(
                     createRegionsFromLines(S, docKey, state.affectedLines,
                                            cfg.minimumStreamingLines),
                     docKey, dsk, t)
              ELSE S
    IN  [S1 EXCEPT !.trackingStates[docKey] = [@ EXCEPT !.isTracking = FALSE]]

\* endTracking clearing the accumulators but leaving isTracking set
endTracking_staysTracking(S, docKey, cfg, dsk, t) ==
  IF docKey \notin DOMAIN S.trackingStates \/ ~S.trackingStates[docKey].isTracking
  THEN S
  ELSE
    [(IF SpeedExceeds(S.trackingStates[docKey], cfg.typingSpeedThreshold)
         /\ LinesExceed(Cardinality(S.trackingStates[docKey].affectedLines),
                        cfg.minimumStreamingLines)
      THEN onRegionsCreatedCallback(
             createRegionsFromLines(S, docKey, S.trackingStates[docKey].affectedLines,
                                    cfg.minimumStreamingLines),
             docKey, dsk, t)
      ELSE S)
     EXCEPT !.trackingStates[docKey] =
       [@ EXCEPT !.totalCharacters = 0, !.affectedLines = {}]]

\* ChangeTracker.endTracking
endTracking(S, docKey, cfg, dsk, t) ==
  IF docKey \notin DOMAIN S.trackingStates \/ ~S.trackingStates[docKey].isTracking
  THEN S
  ELSE
    LET state == S.trackingStates[docKey]
        lineCount == Cardinality(state.affectedLines)
        S1 == IF SpeedExceeds(state, cfg.typingSpeedThreshold)
                 /\ LinesExceed(lineCount, cfg.minimumStreamingLines)
              THEN onRegionsCreatedCallback(
                     createRegionsFromLines(S, docKey, state.affectedLines,
                                            cfg.minimumStreamingLines),
                     docKey, dsk, t)
              ELSE S
    IN  [S1 EXCEPT !.trackingStates[docKey] =
           [@ EXCEPT !.isTracking = FALSE, !.totalCharacters = 0, !.affectedLines = {}]]

\* stopTracking deleting the state without clearing its timer
stopTracking_keepsTimer(S, docKey) ==
  [S EXCEPT !.trackingStates = MapDelete(@, docKey)]

\* ChangeTracker.stopTracking
stopTracking(S, docKey) ==
  LET S1 == IF docKey \in DOMAIN S.trackingStates /\ S.trackingStates[docKey].timeoutId # 0
            THEN clearTimeout(S, S.trackingStates[docKey].timeoutId)
            ELSE S
  IN  [S1 EXCEPT !.trackingStates = MapDelete(@, docKey)]

\* ChangeTracker.clearAll: timeoutId 0 stands for undefined
changeTrackerClearAll(S) ==
  [S EXCEPT !.timers = [h \in DOMAIN @ \
                          {S.trackingStates[k].timeoutId : k \in DOMAIN S.trackingStates}
                        |-> @[h]],
            !.trackingStates = EmptyMap]

\* the oldRegions array of handleTextDocumentChange as the reconciler reads
\* it: the store's own array while that array is still installed (same), else
\* the array taken at the start of the event
OldRegionsNow(S, key, oldArr) ==
  [defined |-> oldArr.defined,
   regs |-> IF oldArr.same THEN S.regions[key] ELSE oldArr.regs]

\* the loop body without the test for an empty inserted text
classifyChange_tracksDeletions(S, document, change, oldText, oldArr, cfg, dsk, t) ==
  IF isPaste(change, cfg)
  THEN handlePaste(S, document, change, oldText,
                   OldRegionsNow(S, document.key, oldArr), cfg, dsk, t)
  ELSE trackForFastTyping(S, document.key, change, t)

\* the body of the loop of processChange for one change
classifyChange(S, document, change, oldText, oldArr, cfg, dsk, t) ==
  IF IsEmptyText(change.text)
  THEN S
  ELSE IF isPaste(change, cfg)
       THEN handlePaste(S, document, change, oldText,
                        OldRegionsNow(S, document.key, oldArr), cfg, dsk, t)
       ELSE trackForFastTyping(S, document.key, change, t)

\* ChangeTracker.processChange: the loop over event.contentChanges; oldArr
\* is the oldRegions argument, [defined, same, regs]
RECURSIVE processChange(_, _, _, _, _, _, _, _)
processChange(S, document, changes, oldText, oldArr, cfg, dsk, t) ==
  IF changes = <<>>
  THEN S
  ELSE processChange(classifyChange(S, document, changes[1], oldText, oldArr,
                                    cfg, dsk, t),
                     document, Tail(changes), oldText, oldArr, cfg, dsk, t)

----------------------------------------------------------------------------
(* Event handlers (src/unnamed/part_005, lines 1-290) and command handlers  *)
(* (src/src/types.ts, lines 49-114)                                         *)

\* the last step of the two edit handlers: a debounced save if regions
\* were modified; r is [S, regionsModified]
saveIfModified(r, key, dsk, t) ==
  IF r.regionsModified THEN scheduleSave(r.S, key, FALSE, dsk, t) ELSE r.S

\* the oldRegions array after removeLinesFromRegions ran on S: the call
\* installs a new array in the store unless it returns early, and from then
\* on oldRegions is an array of its own
oldAfterRemove(S, key, oldArr) ==
  IF key \notin DOMAIN S.regions \/ S.regions[key] = <<>>
  THEN oldArr
  ELSE [defined |-> oldArr.defined, same |-> FALSE,
        regs |-> OldRegionsNow(S, key, oldArr).regs]

\* the oldRegions array after updateRegionsAfterEdit ran on S: the region
\* objects it still shares with the store have been changed in place
oldAfterUpdate(S, key, oldArr, rangeStartLine, rangeEndLine, text) ==
  IF \/ oldArr.same
     \/ getRegions(S.regions, key) = <<>>
     \/ LineDelta(rangeStartLine, rangeEndLine, text) = 0
  THEN oldArr
  ELSE [oldArr EXCEPT !.regs =
          Mutate(@, ObjectsOf(S.regions[key]), rangeEndLine,
                 LineDelta(rangeStartLine, rangeEndLine, text))]

\* one turn of the first loop of handleTextDocumentChange, r being what
\* removeLinesFromRegions returned for the change; acc is
\* [S, oldArr, regionsModified]
updateStep(acc, key, change, r) ==
  [S |-> updateRegionsAfterEdit(r.S, key, change.range.start.line,
                                change.range.end.line, change.text),
   oldArr |-> oldAfterUpdate(r.S, key, oldAfterRemove(acc.S, key, acc.oldArr),
                             change.range.start.line, change.range.end.line,
                             change.text),
   regionsModified |-> acc.regionsModified \/ r.modified]

\* Step 2 of handleTextDocumentChange: removeLinesFromRegions and
\* updateRegionsAfterEdit for every change
RECURSIVE removeAndUpdate(_, _, _)
removeAndUpdate(acc, key, changes) ==
  IF changes = <<>>
  THEN acc
  ELSE removeAndUpdate(
         updateStep(acc, key, changes[1],
                    removeLinesFromRegions(acc.S, key, changes[1].range.start.line,
                                           changes[1].range.end.line)),
         key, Tail(changes))

\* shadowTextManager.getOldTextAndRefreshShadow: the text before the change
getOldText(S, key) ==
  IF key \in DOMAIN S.shadowDocs
  THEN [defined |-> TRUE, text |-> S.shadowDocs[key]]
  ELSE [defined |-> FALSE, text |-> <<"">>]

\* Steps 3 and 4 of handleTextDocumentChange: processChange, then the save;
\* r is what the first loop left
classifyAndSave(r, document, changes, oldText, cfg, dsk, t) ==
  saveIfModified(
    [S |-> processChange(r.S, document, changes, oldText, r.oldArr, cfg, dsk, t),
     regionsModified |-> r.regionsModified],
    document.key, dsk, t)

\* handleTextDocumentChange; document is the document after the change
handleTextDocumentChange(S, document, changes, cfg, dsk, t) ==
  classifyAndSave(
    removeAndUpdate(
      [S |-> [S EXCEPT !.shadowDocs = MapSet(@, document.key, document.lines)],
       oldArr |-> [defined |-> TRUE, same |-> document.key \in DOMAIN S.regions,
                   regs |-> <<>>],
       regionsModified |-> FALSE],
      document.key, changes),
    document, changes, getOldText(S, document.key), cfg, dsk, t)

\* the guard of handleSelectionChange: "Ignore very large selections"
IgnoredSelection_beyondEnd(selection, lineCount) ==
  selection.start.line = 0 /\ selection.end.line >= lineCount

IgnoredSelection(selection, lineCount) ==
  selection.start.line = 0 /\ selection.end.line >= lineCount - 2

\* regionsModified after one turn of the loop of handleSelectionChange
orModified(regionsModified, r) ==
  [S |-> r.S, regionsModified |-> regionsModified \/ r.modified]

\* the loop of handleSelectionChange over event.selections; acc is
\* [S, regionsModified]
RECURSIVE selectionLoop(_, _, _)
selectionLoop(acc, document, selections) ==
  IF selections = <<>>
  THEN acc
  ELSE IF IgnoredSelection(selections[1], Len(document.lines))
       THEN selectionLoop(acc, document, Tail(selections))
       ELSE selectionLoop(
              orModified(acc.regionsModified,
                         removeLinesFromRegions(acc.S, document.key,
                                                selections[1].start.line,
                                                selections[1].end.line)),
              document, Tail(selections))

\* handleSelectionChange
handleSelectionChange(S, document, selections, dsk, t) ==
  saveIfModified(selectionLoop([S |-> S, regionsModified |-> FALSE],
                               document, selections),
                 document.key, dsk, t)

\* handleDocumentOpen discarding the regions without the immediate save
handleDocumentOpen_withoutSave(S, document, dsk, t) ==
  LET key   == document.key
      S1    == [S EXCEPT !.shadowDocs = MapSet(@, key, document.lines)]
      saved == savedRegions(S.manifest, key)
  IN  IF Len(saved) = 0
      THEN S1
      ELSE IF hasMatchingChecksum(S.manifest, key, document.lines)
           THEN restoreRegionsForDocument(S1, key, saved)
           ELSE clearDocument(S1, key)

\* handleDocumentOpen
handleDocumentOpen(S, document, dsk, t) ==
  LET key   == document.key
      S1    == [S EXCEPT !.shadowDocs = MapSet(@, key, document.lines)]
      saved == savedRegions(S.manifest, key)
  IN  IF Len(saved) = 0
      THEN S1
      ELSE IF hasMatchingChecksum(S.manifest, key, document.lines)
           THEN restoreRegionsForDocument(S1, key, saved)
           ELSE scheduleSave(clearDocument(S1, key), key, TRUE, dsk, t)

\* handleDocumentSave
handleDocumentSave(S, key, dsk, t) == scheduleSave(S, key, TRUE, dsk, t)

\* handleDocumentClose
handleDocumentClose(S, key) ==
  LET S1 == [S EXCEPT !.shadowDocs = MapDelete(@, key)]
  IN  clearTimer(clearDocument(stopTracking(S1, key), key), key)

\* handleFileRename for one file of the event
handleFileRename(S, oldKey, newKey, dsk, t) ==
  LET S1 == shadowUpdateDocumentUri(S, oldKey, newKey)
      S2 == updateDocumentUri(S1, oldKey, newKey)
      S3 == updateFilePath(S2, oldKey, newKey)
  IN  scheduleSave(S3, newKey, TRUE, dsk, t)

\* dismissRegion
dismissRegion(S, key, regionId, dsk, t) ==
  LET filteredRegions == SelectSeq(getRegions(S.regions, key),
                                   LAMBDA r : r.id # regionId)
  IN  scheduleSave(setRegionsForDocument(S, key, filteredRegions), key, TRUE, dsk, t)

\* dismissAllRegions
dismissAllRegions(S, key, dsk, t) ==
  scheduleSave(clearDocument(S, key), key, TRUE, dsk, t)

----------------------------------------------------------------------------
(* The editor: how a content change rewrites the buffer.  Positions are     *)
(* taken at the start or at the end of a line.                              *)

Pos(line, character) == [line |-> line, character |-> character]

Change(sl, sc, el, ec, text) ==
  [range |-> [start |-> Pos(sl, sc), end |-> Pos(el, ec)], text |-> text]

Selection(sl, el) == [start |-> Pos(sl, 0), end |-> Pos(el, 0)]

\* the range of a change lies in the buffer, at line starts or line ends
ValidChange(lines, change) ==
  LET s == change.range.start
      e == change.range.end
  IN  /\ s.line \in 0 .. Len(lines) - 1
      /\ e.line \in s.line .. Len(lines) - 1
      /\ s.character \in {0, Len(lines[s.line + 1])}
      /\ e.character \in {0, Len(lines[e.line + 1])}
      /\ (s.line = e.line => s.character <= e.character)
      /\ (IsEmptyText(change.text) => s # e)

\* the buffer after one change
ApplyChange(lines, change) ==
  LET s      == change.range.start
      e      == change.range.end
      prefix == IF s.character = 0 THEN "" ELSE lines[s.line + 1]
      suffix == IF e.character = Len(lines[e.line + 1]) THEN "" ELSE lines[e.line + 1]
      n      == Len(change.text)
      new    == [i \in 1 .. n |->
                   (IF i = 1 THEN prefix ELSE "") \o change.text[i]
                     \o (IF i = n THEN suffix ELSE "")]
  IN  SubSeq(lines, 1, s.line) \o new \o SubSeq(lines, e.line + 2, Len(lines))

\* the changes of one event are disjoint and listed from the end of the
\* buffer to its start, each range in the coordinates before the event
ValidChanges(lines, changes) ==
  /\ changes # <<>>
  /\ \A i \in DOMAIN changes : ValidChange(lines, changes[i])
  /\ \A i \in 1 .. Len(changes) - 1 :
       changes[i + 1].range.end.line < changes[i].range.start.line

RECURSIVE ApplyChanges(_, _)
ApplyChanges(lines, changes) ==
  IF changes = <<>> THEN lines
  ELSE ApplyChanges(ApplyChange(lines, changes[1]), Tail(changes))

----------------------------------------------------------------------------
(* State machine *)

Keys == {"a", "b"}

\* the extension's state as a record, with an empty log
Cur ==
  [regions |-> regions, nextId |-> nextId, trackingStates |-> trackingStates,
   timers |-> timers, nextTimer |-> nextTimer, saveTimers |-> saveTimers,
   manifest |-> manifest, shadowDocs |-> shadowDocs, log |-> <<>>]

\* the extension's state after a handler returned S
Commit(S) ==
  /\ regions' = S.regions
  /\ nextId' = S.nextId
  /\ trackingStates' = S.trackingStates
  /\ timers' = S.timers
  /\ nextTimer' = S.nextTimer
  /\ saveTimers' = S.saveTimers
  /\ manifest' = S.manifest
  /\ shadowDocs' = S.shadowDocs

\* what the last step was: the handler, its document and arguments, the
\* document's regions, buffer, tracking state and shadow text before it, the
\* manifest before it, and the handler's log
Event(kind, key, arg, S) ==
  [kind |-> kind, key |-> key, arg |-> arg, ret |-> FALSE,
   pre |-> getRegions(regions, key),
   preLines |-> IF key \in DOMAIN docs THEN docs[key] ELSE <<>>,
   preTracking |-> IF key \in DOMAIN trackingStates
                   THEN <<trackingStates[key]>> ELSE <<>>,
   preShadow |-> IF key \in DOMAIN shadowDocs THEN <<shadowDocs[key]>> ELSE <<>>,
   preManifest |-> manifest,
   log |-> S.log]

\* the configuration read by getConfig (defaults 20, 20 and 110); small
\* line thresholds keep the documents small
MinimumPasteLines == 3
MinimumStreamingLines == 2
typingSpeedThreshold == 110

Config ==
  [minimumPasteLines |-> MinimumPasteLines,
   minimumStreamingLines |-> MinimumStreamingLines,
   typingSpeedThreshold |-> typingSpeedThreshold]

\* the documents open when the extension is activated
InitialDocs == {<<"x", "x">>, <<"p", "p", "p">>}

\* milliseconds that may pass before an edit arrives
TimeSteps == {0, 50}

Init ==
  /\ regions = EmptyMap
  /\ nextId = 0
  /\ trackingStates = EmptyMap
  /\ timers = EmptyMap
  /\ nextTimer = 1
  /\ saveTimers = EmptyMap
  /\ manifest = <<>>
  /\ \E d \in InitialDocs :
       /\ docs = [k \in {"a"} |-> d]
       /\ disk = [k \in {"a"} |-> d]
       /\ shadowDocs = [k \in {"a"} |-> d]
  /\ now = 0
  /\ config = Config
  /\ last = [kind |-> "init", key |-> "a", arg |-> <<>>, ret |-> FALSE, pre |-> <<>>,
             preLines |-> <<>>, preTracking |-> <<>>, preShadow |-> <<>>,
             preManifest |-> <<>>, log |-> <<>>]
  /\ steps = 0

\* a handler of the active extension returned S: its effects and the record
\* of the step
Handled(kind, key, arg, S) ==
  /\ last.kind # "deactivate"
  /\ Commit(S)
  /\ last' = Event(kind, key, arg, S)

\* a document the editor can still work on
Editable(key) == key \in DOMAIN docs /\ key \in DOMAIN disk

\* onDidChangeTextDocument: the buffer changes, then the handler runs
TextDocumentChange(key, changes, dt) ==
  /\ steps < MaxSteps
  /\ Editable(key)
  /\ ValidChanges(docs[key], changes)
  /\ LET lines == ApplyChanges(docs[key], changes)
         S == handleTextDocumentChange(Cur, [key |-> key, lines |-> lines],
                                       changes, config, disk, now + dt)
     IN  /\ Len(lines) <= MaxDocLines
         /\ docs' = [docs EXCEPT ![key] = lines]
         /\ now' = now + dt
         /\ Handled("change", key, changes, S)
  /\ steps' = steps + 1
  /\ UNCHANGED <<disk, config>>

\* onDidChangeTextEditorSelection
SelectionChange(key, selections) ==
  /\ steps < MaxSteps
  /\ Editable(key)
  /\ \A i \in DOMAIN selections :
       /\ selections[i].start.line \in 0 .. Len(docs[key]) - 1
       /\ selections[i].end.line \in selections[i].start.line .. Len(docs[key]) - 1
  /\ LET S == handleSelectionChange(Cur, [key |-> key, lines |-> docs[key]],
                                    selections, disk, now)
     IN  /\ Handled("selection", key, selections, S)
  /\ steps' = steps + 1
  /\ UNCHANGED <<docs, disk, now, config>>

\* the debounce timer armed by trackForFastTyping fires
DebounceFire(h) ==
  /\ steps < MaxSteps
  /\ h \in DOMAIN timers
  /\ timers[h].kind = "debounce"
  /\ LET t == Max(now, timers[h].due)
         S == endTracking(clearTimeout(Cur, h), timers[h].key, config, disk, t)
     IN  /\ now' = t
         /\ Handled("debounce", timers[h].key, h, S)
  /\ steps' = steps + 1
  /\ UNCHANGED <<docs, disk, config>>

\* the timer armed by scheduleSave fires
SaveFire(h) ==
  /\ steps < MaxSteps
  /\ h \in DOMAIN timers
  /\ timers[h].kind = "save"
  /\ LET t == Max(now, timers[h].due)
         S == saveNow(clearTimeout(Cur, h), timers[h].key, disk)
     IN  /\ now' = t
         /\ Handled("savetimer", timers[h].key, h, S)
  /\ steps' = steps + 1
  /\ UNCHANGED <<docs, disk, config>>

\* onDidOpenTextDocument: a file of the workspace is opened
DocumentOpen(key) ==
  /\ steps < MaxSteps
  /\ key \in DOMAIN disk
  /\ key \notin DOMAIN docs
  /\ LET S == handleDocumentOpen(Cur, [key |-> key, lines |-> disk[key]], disk, now)
     IN  /\ Handled("open", key, <<>>, S)
  /\ docs' = MapSet(docs, key, disk[key])
  /\ steps' = steps + 1
  /\ UNCHANGED <<disk, now, config>>

\* onDidSaveTextDocument: the buffer has been written to disk
DocumentSave(key) ==
  /\ steps < MaxSteps
  /\ Editable(key)
  /\ LET dsk == MapSet(disk, key, docs[key])
         S == handleDocumentSave(Cur, key, dsk, now)
     IN  /\ disk' = dsk
         /\ Handled("save", key, <<>>, S)
  /\ steps' = steps + 1
  /\ UNCHANGED <<docs, now, config>>

\* onDidCloseTextDocument
DocumentClose(key) ==
  /\ steps < MaxSteps
  /\ key \in DOMAIN docs
  /\ LET S == handleDocumentClose(Cur, key)
     IN  /\ Handled("close", key, <<>>, S)
  /\ docs' = MapDelete(docs, key)
  /\ steps' = steps + 1
  /\ UNCHANGED <<disk, now, config>>

\* onWillRenameFiles, after which the file moves; an open document of the old
\* path is closed, and one of the new path opened, by later events
FileRename(oldKey, newKey) ==
  /\ steps < MaxSteps
  /\ oldKey # newKey
  /\ oldKey \in DOMAIN disk
  /\ newKey \notin DOMAIN docs
  /\ LET S == handleFileRename(Cur, oldKey, newKey, disk, now)
     IN  /\ Handled("rename", oldKey, newKey, S)
  /\ disk' = MapDelete(MapSet(disk, newKey, disk[oldKey]), oldKey)
  /\ steps' = steps + 1
  /\ UNCHANGED <<docs, now, config>>

\* command pasteReviewReminder.dismissRegion
DismissRegion(key, regionId) ==
  /\ steps < MaxSteps
  /\ Editable(key)
  /\ LET S == dismissRegion(Cur, key, regionId, disk, now)
     IN  /\ Handled("dismiss", key, regionId, S)
  /\ steps' = steps + 1
  /\ UNCHANGED <<docs, disk, now, config>>

\* command pasteReviewReminder.dismissAll
DismissAll(key) ==
  /\ steps < MaxSteps
  /\ Editable(key)
  /\ LET S == dismissAllRegions(Cur, key, disk, now)
     IN  /\ Handled("dismissAll", key, <<>>, S)
  /\ steps' = steps + 1
  /\ UNCHANGED <<docs, disk, now, config>>

----------------------------------------------------------------------------
(* The edits, selections and commands the exploration offers *)

\* a text of n lines, each "p"
PasteBody(n) == [i \in 1 .. n |-> "p"]

\* text typed or streamed into one line
StreamBody == <<"xxxxxx">>

\* insert whole lines in front of line l
InsertLines(l, body) == Change(l, 0, l, 0, body \o <<"">>)

\* replace lines l..m by a text
ReplaceLines(lines, l, m, text) == Change(l, 0, m, Len(lines[m + 1]), text)

\* append a character to line l
TypeChar(lines, l) == Change(l, Len(lines[l + 1]), l, Len(lines[l + 1]), <<"x">>)

\* the lines at which edits are offered: the first two and the last
EditLines(lines) == {0, 1, Len(lines) - 1} \cap (0 .. Len(lines) - 1)

\* insertions that do not reach the paste threshold
TrackedEdits(lines) ==
  {InsertLines(l, StreamBody) : l \in EditLines(lines)}
  \cup {TypeChar(lines, l) : l \in {k \in {0} : Len(lines[k + 1]) < MaxLineLength}}

\* insertions that reach the paste threshold, with and without replaced lines
PasteEdits(lines) ==
  {InsertLines(l, PasteBody(MinimumPasteLines - 1)) : l \in EditLines(lines)}
  \cup {ReplaceLines(lines, l, m, PasteBody(MinimumPasteLines)) :
          l \in {0}, m \in {0, Len(lines) - 1}}

\* deletions of the text of lines l..m
DeleteEdits(lines) ==
  UNION {{ReplaceLines(lines, l, m, <<"">>) :
            m \in {l + 1, Len(lines) - 1} \cap (0 .. Len(lines) - 1)} :
         l \in {0, 1} \cap (0 .. Len(lines) - 1)}

\* events with two changes, the later one first
TwoChanges(lines) ==
  {<<InsertLines(l1, body), InsertLines(0, body)>> :
     l1 \in EditLines(lines) \ {0},
     body \in {StreamBody, PasteBody(MinimumPasteLines - 1)}}

Selections(lines) ==
  UNION {{Selection(a, b) :
            b \in {a, Len(lines) - 2, Len(lines) - 1} \cap (a .. Len(lines) - 1)} :
         a \in {0, 1} \cap (0 .. Len(lines) - 1)}

EditEvent ==
  \E key \in DOMAIN docs, dt \in TimeSteps :
    \E c \in TrackedEdits(docs[key]) : TextDocumentChange(key, <<c>>, dt)

PasteEvent ==
  \E key \in DOMAIN docs :
    \E c \in PasteEdits(docs[key]) : TextDocumentChange(key, <<c>>, 0)

DeleteEvent ==
  \E key \in DOMAIN docs :
    \E c \in DeleteEdits(docs[key]) : TextDocumentChange(key, <<c>>, 0)

MultiChangeEvent ==
  \E key \in DOMAIN docs :
    \E cs \in TwoChanges(docs[key]) : TextDocumentChange(key, cs, 0)

SelectionEvent ==
  \E key \in DOMAIN docs :
    \E sel \in Selections(docs[key]) : SelectionChange(key, <<sel>>)

DebounceEvent == \E h \in DOMAIN timers : DebounceFire(h)

SaveTimerEvent == \E h \in DOMAIN timers : SaveFire(h)

OpenEvent == \E key \in Keys : DocumentOpen(key)

SaveEvent == \E key \in Keys : DocumentSave(key)

CloseEvent == \E key \in Keys : DocumentClose(key)

RenameEvent == \E key \in Keys, newKey \in Keys : FileRename(key, newKey)

DismissEvent ==
  \E key \in DOMAIN docs :
    \E r \in Range(getRegions(regions, key)) : DismissRegion(key, r.id)

DismissAllEvent == \E key \in DOMAIN docs : DismissAll(key)

Next ==
  \/ EditEvent
  \/ PasteEvent
  \/ DeleteEvent
  \/ MultiChangeEvent
  \/ SelectionEvent
  \/ DebounceEvent
  \/ SaveTimerEvent
  \/ OpenEvent
  \/ SaveEvent
  \/ CloseEvent
  \/ RenameEvent
  \/ DismissEvent
  \/ DismissAllEvent

Spec == Init /\ [][Next]_vars

----------------------------------------------------------------------------
(* The region store on its own: RegionManager's operations applied to      *)
(* arbitrary region lists of one document                                   *)

\* the line intervals within the first MaxLine + 1 lines
Intervals ==
  UNION {{<<s, e>> : e \in s .. MaxLine} : s \in 0 .. MaxLine}

\* the region lists addRegion can have built: identifiers in creation order
RegionLists ==
  UNION {{[i \in 1 .. n |-> [id |-> RegionId(i - 1), startLine |-> f[i][1],
                             endLine |-> f[i][2], obj |-> i - 1]] :
            f \in [1 .. n -> Intervals]} : n \in 0 .. MaxRegions}

\* the replacement texts of an edit: nothing, or one to three lines
EditTexts == {<<"">>, <<"p", "">>, <<"p", "p", "">>}

InitRM ==
  /\ \E list \in RegionLists :
       /\ regions = (IF list = <<>> THEN EmptyMap ELSE [k \in {"a"} |-> list])
       /\ nextId = Len(list)
  /\ trackingStates = EmptyMap
  /\ timers = EmptyMap
  /\ nextTimer = 1
  /\ saveTimers = EmptyMap
  /\ manifest = <<>>
  /\ docs = EmptyMap
  /\ disk = EmptyMap
  /\ shadowDocs = EmptyMap
  /\ now = 0
  /\ config = Config
  /\ last = [kind |-> "init", key |-> "a", arg |-> <<>>, ret |-> FALSE, pre |-> <<>>,
             preLines |-> <<>>, preTracking |-> <<>>, preShadow |-> <<>>,
             preManifest |-> <<>>, log |-> <<>>]
  /\ steps = 0

\* a step of the region store: one operation is applied to the list drawn
\* by InitRM, S being the state it leaves and ret the value it returns
StoreStep(kind, key, arg, S, ret) ==
  /\ last.kind = "init"
  /\ regions' = S.regions
  /\ nextId' = S.nextId
  /\ last' = [Event(kind, key, arg, S) EXCEPT !.ret = ret]
  /\ steps' = steps + 1
  /\ UNCHANGED <<trackingStates, timers, nextTimer, saveTimers, manifest,
                 shadowDocs, docs, disk, now, config>>

AddRegionOp(key, startLine, endLine) ==
  StoreStep("addRegion", key, <<startLine, endLine>>,
            addRegion(Cur, key, startLine, endLine), RegionId(nextId))

\* r is what removeLinesFromRegions returned
RemoveLinesDone(key, rangeStartLine, rangeEndLine, r) ==
  StoreStep("removeLines", key, <<rangeStartLine, rangeEndLine>>, r.S, r.modified)

RemoveLinesOp(key, rangeStartLine, rangeEndLine) ==
  RemoveLinesDone(key, rangeStartLine, rangeEndLine,
                  removeLinesFromRegions(Cur, key, rangeStartLine, rangeEndLine))

UpdateRegionsOp(key, rangeStartLine, rangeEndLine, text) ==
  StoreStep("updateRegions", key, <<rangeStartLine, rangeEndLine, text>>,
            updateRegionsAfterEdit(Cur, key, rangeStartLine, rangeEndLine, text),
            FALSE)

AddRegionStep == \E iv \in Intervals : AddRegionOp("a", iv[1], iv[2])

RemoveLinesStep == \E iv \in Intervals : RemoveLinesOp("a", iv[1], iv[2])

UpdateRegionsStep ==
  \E iv \in Intervals, text \in EditTexts : UpdateRegionsOp("a", iv[1], iv[2], text)

UpdateUriStep ==
  \E oldKey \in Keys, newKey \in Keys :
    StoreStep("updateDocumentUri", oldKey, newKey,
              updateDocumentUri(Cur, oldKey, newKey), FALSE)

NextRM ==
  \/ AddRegionStep
  \/ RemoveLinesStep
  \/ UpdateRegionsStep
  \/ UpdateUriStep

SpecRM == InitRM /\ [][NextRM]_vars

----------------------------------------------------------------------------
(* Reconciler specification: a reviewed document, open with no regions, is *)
(* replaced as a whole by one paste                                        *)

MaxReviewedLines == 7

\* the lines a reviewed document is written with
LineTexts == {"", "a", "bb"}

\* the documents long enough for their own text to count as a paste
ReviewedDocs ==
  UNION {[1 .. n -> LineTexts] : n \in MinimumPasteLines .. MaxReviewedLines}

InitFP ==
  /\ regions = EmptyMap
  /\ nextId = 0
  /\ trackingStates = EmptyMap
  /\ timers = EmptyMap
  /\ nextTimer = 1
  /\ saveTimers = EmptyMap
  /\ manifest = <<>>
  /\ \E d \in ReviewedDocs :
       /\ docs = [k \in {"a"} |-> d]
       /\ disk = [k \in {"a"} |-> d]
       /\ shadowDocs = [k \in {"a"} |-> d]
  /\ now = 0
  /\ config = Config
  /\ last = [kind |-> "init", key |-> "a", arg |-> <<>>, ret |-> FALSE, pre |-> <<>>,
             preLines |-> <<>>, preTracking |-> <<>>, preShadow |-> <<>>,
             preManifest |-> <<>>, log |-> <<>>]
  /\ steps = 0

\* the whole document is selected and replaced by a text in one change
ReplaceDocument(key, text) ==
  /\ last.kind = "init"
  /\ TextDocumentChange(key, <<ReplaceLines(docs[key], 0, Len(docs[key]) - 1, text)>>, 0)

\* the document's own text is pasted over it
SamePaste == \E key \in DOMAIN docs : ReplaceDocument(key, docs[key])

\* the document's text with one line altered is pasted over it
AlteredPaste ==
  \E key \in DOMAIN docs :
    \E i \in DOMAIN docs[key] :
      \E line \in LineTexts \ {docs[key][i]} :
        ReplaceDocument(key, [docs[key] EXCEPT ![i] = line])

NextFP ==
  \/ SamePaste
  \/ AlteredPaste

SpecFP == InitFP /\ [][NextFP]_vars

----------------------------------------------------------------------------
(* Reconciler specification with regions: a two-line document that has one *)
(* region is open, and one paste, of the size of isFullFilePaste or        *)
(* smaller, is inserted in front of one of its lines or replaces the       *)
(* document from one of its lines on                                        *)

MaxPastedLines == 5

\* the pasted texts: minimumPasteLines lines and more
PastedTexts ==
  UNION {[1 .. n -> LineTexts \ {"a"}] : n \in MinimumPasteLines .. MaxPastedLines}

InitRC ==
  /\ \E s \in {0, 1}, e \in {0, 1} :
       /\ s <= e
       /\ regions = [k \in {"a"} |->
                      <<[id |-> RegionId(0), startLine |-> s, endLine |-> e,
                         obj |-> 0]>>]
  /\ nextId = 1
  /\ trackingStates = EmptyMap
  /\ timers = EmptyMap
  /\ nextTimer = 1
  /\ saveTimers = EmptyMap
  /\ \E d \in [{1, 2} -> LineTexts] :
       /\ docs = [k \in {"a"} |-> d]
       /\ disk = [k \in {"a"} |-> d]
       /\ shadowDocs = [k \in {"a"} |-> d]
       /\ manifest = <<[documentPath |-> "a", checksum |-> computeChecksum(d),
                         regions |-> regions["a"], storeKey |-> "a"]>>
  /\ now = 0
  /\ config = Config
  /\ last = [kind |-> "init", key |-> "a", arg |-> <<>>, ret |-> FALSE, pre |-> <<>>,
             preLines |-> <<>>, preTracking |-> <<>>, preShadow |-> <<>>,
             preManifest |-> <<>>, log |-> <<>>]
  /\ steps = 0

\* a text is pasted in front of a line: the first, or a later one
PasteAbove ==
  \E key \in DOMAIN docs, text \in PastedTexts :
    \E line \in 0 .. Len(docs[key]) - 1 :
      /\ last.kind = "init"
      /\ TextDocumentChange(key, <<Change(line, 0, line, 0, text)>>, 0)

\* a text is pasted over the document from a line to the end: over the
\* whole document, or over its later lines
PasteOver ==
  \E key \in DOMAIN docs, text \in PastedTexts :
    \E line \in 0 .. Len(docs[key]) - 1 :
      /\ last.kind = "init"
      /\ TextDocumentChange(
           key, <<ReplaceLines(docs[key], line, Len(docs[key]) - 1, text)>>, 0)

NextRC ==
  \/ PasteAbove
  \/ PasteOver

SpecRC == InitRC /\ [][NextRC]_vars

----------------------------------------------------------------------------
(* Dismissal specification: the two-line document with one region, saved   *)
(* in the manifest with the digest of its content, has lines selected, is  *)
(* closed and opened again, and the timer of the debounced save may fire   *)

NextDS ==
  \/ SelectionEvent
  \/ SaveTimerEvent
  \/ CloseEvent
  \/ OpenEvent

SpecDS == InitRC /\ [][NextDS]_vars

----------------------------------------------------------------------------
(* Quiescence specification: the two-line document with one region is      *)
(* edited or has lines selected, it stays open, and no further edit        *)
(* arrives while the timers armed by the event fire; setTimeout callbacks  *)
(* run once their delay has passed, so both timer events are weakly fair   *)

\* the last edit or selection before the user stops
UserEvent ==
  /\ last.kind = "init"
  /\ \/ EditEvent
     \/ DeleteEvent
     \/ SelectionEvent

NextLive ==
  \/ UserEvent
  \/ DebounceEvent
  \/ SaveTimerEvent

SpecLive ==
  /\ InitRC
  /\ [][NextLive]_vars
  /\ WF_vars(DebounceEvent)
  /\ WF_vars(SaveTimerEvent)

----------------------------------------------------------------------------
(* Persistence gate specification: the extension is activated in a         *)
(* workspace whose manifest was written in an earlier session, and          *)
(* documents are opened, saved and closed, files renamed, and the          *)
(* extension is deactivated again.  Before the activation the variable     *)
(* manifest holds the manifest file, docs the open documents.              *)

\* SaveManager.loadManifest: entries of files that no longer exist are removed
loadManifest(files, dsk) ==
  SelectSeq(files, LAMBDA f : f.documentPath \in DOMAIN dsk)

\* the loop of activate over vscode.window.visibleTextEditors; editors is
\* the set of their documents
RECURSIVE restoreLoop(_, _)
restoreLoop(S, editors) ==
  IF editors = {}
  THEN S
  ELSE LET key == CHOOSE k \in editors : TRUE
       IN  restoreLoop(IF Len(savedRegions(S.manifest, key)) > 0
                       THEN restoreRegionsForDocument(S, key, savedRegions(S.manifest, key))
                       ELSE S,
                       editors \ {key})

\* activate: the managers are constructed, the manifest is loaded, the
\* shadow copies of the open documents (vscode.workspace.textDocuments) are
\* taken, and the saved regions of the documents of the visible editors
\* (vscode.window.visibleTextEditors) are restored; open maps the keys of the
\* open documents to their texts, visible is the set of keys of the
\* documents shown in an editor
activate(open, visible, files, dsk) ==
  restoreLoop([regions |-> EmptyMap, nextId |-> 0, trackingStates |-> EmptyMap,
               timers |-> EmptyMap, nextTimer |-> 1, saveTimers |-> EmptyMap,
               manifest |-> loadManifest(files, dsk),
               shadowDocs |-> open, log |-> <<>>],
              visible)

\* deactivate (src/src/extension.ts:357-365); disposing the emitter, the
\* decorations and the code lenses changes nothing of the state
deactivate(S) ==
  shadowClearAll(regionManagerClearAll(changeTrackerClearAll(saveSchedulerClearAll(S))))

\* the manifest files an earlier session can have left: at most one entry
\* per path, each with the digest of some content and one or two regions,
\* which are objects of their own once the file is parsed
StoredManifests ==
  LET entries(path, o) ==
        {[documentPath |-> path, checksum |-> computeChecksum(c), regions |-> regs,
          storeKey |-> ""] :
           c \in InitialDocs,
           regs \in {<<[id |-> RegionId(0), startLine |-> 0, endLine |-> 1,
                        obj |-> o]>>,
                     <<[id |-> RegionId(0), startLine |-> 0, endLine |-> 0,
                        obj |-> o],
                       [id |-> RegionId(1), startLine |-> 1, endLine |-> 1,
                        obj |-> o - 1]>>}}
  IN  {<<>>}
      \cup {<<e>> : e \in entries("a", 0 - 1) \cup entries("b", 0 - 3)}
      \cup {<<e1, e2>> : e1 \in entries("a", 0 - 1), e2 \in entries("b", 0 - 3)}

InitPG ==
  /\ regions = EmptyMap
  /\ nextId = 0
  /\ trackingStates = EmptyMap
  /\ timers = EmptyMap
  /\ nextTimer = 1
  /\ saveTimers = EmptyMap
  /\ manifest \in StoredManifests
  /\ \E present \in {{"a"}, {"a", "b"}} :
       /\ disk \in [present -> InitialDocs]
       /\ \E shown \in SUBSET present : docs = [k \in shown |-> disk[k]]
  /\ shadowDocs = EmptyMap
  /\ now = 0
  /\ config = Config
  /\ last = [kind |-> "init", key |-> "a", arg |-> <<>>, ret |-> FALSE, pre |-> <<>>,
             preLines |-> <<>>, preTracking |-> <<>>, preShadow |-> <<>>,
             preManifest |-> <<>>, log |-> <<>>]
  /\ steps = 0

\* the extension is activated; some of the open documents are shown in an
\* editor
Activate ==
  /\ last.kind = "init"
  /\ \E visible \in SUBSET DOMAIN docs :
       Handled("activate", "a", visible, activate(docs, visible, manifest, disk))
  /\ steps' = steps + 1
  /\ UNCHANGED <<docs, disk, now, config>>

\* the extension is deactivated; its subscriptions are disposed with it, so
\* no handler runs afterwards
Deactivate ==
  /\ steps < MaxSteps
  /\ Handled("deactivate", "a", <<>>, deactivate(Cur))
  /\ steps' = steps + 1
  /\ UNCHANGED <<docs, disk, now, config>>

DeactivateAfterActivate == last.kind # "init" /\ Deactivate

OpenAfterActivate == last.kind # "init" /\ OpenEvent

CloseAfterActivate == last.kind # "init" /\ CloseEvent

SaveAfterActivate == last.kind # "init" /\ SaveEvent

RenameAfterActivate == last.kind # "init" /\ RenameEvent

PasteAfterActivate == last.kind # "init" /\ PasteEvent

NextPG ==
  \/ Activate
  \/ OpenAfterActivate
  \/ CloseAfterActivate
  \/ SaveAfterActivate
  \/ RenameAfterActivate
  \/ PasteAfterActivate
  \/ DeactivateAfterActivate

SpecPG == InitPG /\ [][NextPG]_vars

----------------------------------------------------------------------------
(* Two-document specification: the extension has been activated with two   *)
(* documents open, without saved regions.  First each document receives a  *)
(* paste at its top and then two insertions, 50 ms apart, at its end, which *)
(* leave both with a region, an entry in the manifest and an open tracking *)
(* window; after that the extension handles any events of both.  The       *)
(* variable steps counts the events after these six, which it counts below *)
(* zero.                                                                     *)

MaxTwoSteps == 2

InitTwo ==
  /\ regions = EmptyMap
  /\ nextId = 0
  /\ trackingStates = EmptyMap
  /\ timers = EmptyMap
  /\ nextTimer = 1
  /\ saveTimers = EmptyMap
  /\ manifest = <<>>
  /\ docs \in [Keys -> InitialDocs]
  /\ disk = docs
  /\ shadowDocs = docs
  /\ now = 0
  /\ config = Config
  /\ last = [kind |-> "init", key |-> "a", arg |-> <<>>, ret |-> FALSE, pre |-> <<>>,
             preLines |-> <<>>, preTracking |-> <<>>, preShadow |-> <<>>,
             preManifest |-> <<>>, log |-> <<>>]
  /\ steps = 0 - 6

\* the first six events, "a" and "b" in turn: a paste at the top, an
\* insertion in front of the last line, and another one 50 ms later
SetupTwo ==
  \E key \in Keys :
    /\ steps < 0
    /\ key = (IF steps % 2 = 0 THEN "a" ELSE "b")
    /\ IF steps < 0 - 4
       THEN TextDocumentChange(
              key, <<InsertLines(0, PasteBody(MinimumPasteLines - 1))>>, 0)
       ELSE TextDocumentChange(
              key, <<InsertLines(Len(docs[key]) - 1, StreamBody)>>,
              IF steps = 0 - 2 THEN 50 ELSE 0)

\* the first six events, then the events of Spec for MaxTwoSteps steps
NextTwo ==
  \/ SetupTwo
  \/ steps >= 0 /\ steps < MaxTwoSteps /\ Next

SpecTwo == InitTwo /\ [][NextTwo]_vars

----------------------------------------------------------------------------
(* Window specification: a document has an open tracking window, left by   *)
(* insertions on any of its lines, whose debounce timer is pending; the    *)
(* timer fires, the file may be renamed, and the extension deactivated     *)

InitWin ==
  /\ regions = EmptyMap
  /\ nextId = 0
  /\ \E lines \in SUBSET (0 .. MaxLine + 1) \ {{}}, dt \in TimeSteps,
        perLine \in {1, Len(StreamBody[1]) + 1} :
       /\ trackingStates =
            [k \in {"a"} |->
               [isTracking |-> TRUE, startTime |-> 0,
                totalCharacters |-> perLine * Cardinality(lines),
                affectedLines |-> lines, lastChangeTime |-> dt, timeoutId |-> 1]]
       /\ timers = [h \in {1} |->
                     [kind |-> "debounce", key |-> "a", due |-> dt + TRACKING_TIMEOUT]]
       /\ now = dt
  /\ nextTimer = 2
  /\ saveTimers = EmptyMap
  /\ manifest = <<>>
  /\ docs = [k \in {"a"} |-> [i \in 1 .. MaxLine + 2 |-> "x"]]
  /\ disk = docs
  /\ shadowDocs = docs
  /\ config = Config
  /\ last = [kind |-> "init", key |-> "a", arg |-> <<>>, ret |-> FALSE, pre |-> <<>>,
             preLines |-> <<>>, preTracking |-> <<>>, preShadow |-> <<>>,
             preManifest |-> <<>>, log |-> <<>>]
  /\ steps = 0

\* the timer fires, before or after the file is renamed, unless the
\* extension is deactivated first
NextWin ==
  \/ DebounceEvent
  \/ RenameEvent
  \/ Deactivate

SpecWin == InitWin /\ [][NextWin]_vars

----------------------------------------------------------------------------
(* Properties of the region store *)

\* the regions of the document the last step worked on
post == getRegions(regions, last.key)

\* the ids of a list of regions
IdsOf(regs) == {regs[i].id : i \in DOMAIN regs}

\* the lines covered by a list of regions
Covered(regs) == UNION {LinesOf(regs[i]) : i \in DOMAIN regs}

WellFormed(r) == 0 <= r.startLine /\ r.startLine <= r.endLine

Overlap(r1, r2) == LinesOf(r1) \cap LinesOf(r2) # {}

\* C1 (disjointness): after any sequence of events the regions of a document
\* are pairwise non-overlapping: no line lies in two regions
C1_Disjoint ==
  \A key \in DOMAIN regions :
    \A i, j \in DOMAIN regions[key] :
      i # j => ~Overlap(regions[key][i], regions[key][j])

\* the line delta of the single change of the last step
ChangeDelta(change) ==
  (Len(change.text) - 1) - (change.range.end.line - change.range.start.line)

\* C2 (well-formedness): every region of the store has
\* 0 <= startLine <= endLine, whatever events the handlers processed,
\* edits with a negative line delta included
C2_WellFormed ==
  \A key \in DOMAIN regions :
    \A i \in DOMAIN regions[key] : WellFormed(regions[key][i])

\* an edit that removed lines has just moved a region below it upwards
C2_Witness ==
  /\ last.kind = "change"
  /\ Len(last.arg) = 1
  /\ ChangeDelta(last.arg[1]) < 0
  /\ \E i \in DOMAIN last.pre :
       /\ last.pre[i].startLine > last.arg[1].range.end.line
       /\ \E j \in DOMAIN post :
            /\ post[j].id = last.pre[i].id
            /\ post[j].startLine = last.pre[i].startLine + ChangeDelta(last.arg[1])

\* the touched range a..b lies strictly inside the region
StrictlyInside(r, a, b) == r.startLine < a /\ a <= b /\ b < r.endLine

\* C3 (split): removeLinesFromRegions with a range a..b strictly inside a
\* region s..e replaces the region by the two regions s..a-1 and b+1..e, each
\* with an identifier no region had before; when no other region is touched
\* the rest of the list stays as it was
C3_Split ==
  last.kind = "removeLines" =>
    LET a == last.arg[1]
        b == last.arg[2]
        pre == last.pre
    IN  \A i \in DOMAIN pre :
          StrictlyInside(pre[i], a, b) =>
            /\ pre[i].id \notin IdsOf(post)
            /\ \E j \in 1 .. Len(post) - 1 :
                 /\ post[j].startLine = pre[i].startLine
                 /\ post[j].endLine = a - 1
                 /\ post[j + 1].startLine = b + 1
                 /\ post[j + 1].endLine = pre[i].endLine
                 /\ post[j].id \notin IdsOf(pre)
                 /\ post[j + 1].id \notin IdsOf(pre)
                 /\ post[j].id # post[j + 1].id
            /\ (\A k \in DOMAIN pre \ {i} :
                  pre[k].endLine < a \/ pre[k].startLine > b)
                => /\ Len(post) = Len(pre) + 1
                   /\ \A k \in 1 .. i - 1 : post[k] = pre[k]
                   /\ \A k \in i + 1 .. Len(pre) : post[k + 1] = pre[k]
                   /\ last.ret = TRUE

\* a region has just been split around a range strictly inside it
C3_Witness ==
  /\ last.kind = "removeLines"
  /\ \E i \in DOMAIN last.pre : StrictlyInside(last.pre[i], last.arg[1], last.arg[2])
  /\ Len(post) = Len(last.pre) + 1

\* C4 (line sets): after removeLinesFromRegions with the range a..b the lines
\* covered by the document's regions are the lines covered before minus
\* a..b; a region wholly inside the range disappears and a region not
\* touched stays as it was
C4_RemoveLines ==
  last.kind = "removeLines" =>
    LET a == last.arg[1]
        b == last.arg[2]
        pre == last.pre
    IN  /\ Covered(post) = Covered(pre) \ (a .. b)
        /\ \A i \in DOMAIN pre :
             /\ (WellFormed(pre[i]) /\ a <= pre[i].startLine /\ pre[i].endLine <= b)
                  => pre[i].id \notin IdsOf(post)
             /\ (pre[i].endLine < a \/ pre[i].startLine > b)
                  => \E j \in DOMAIN post : post[j] = pre[i]

\* a range has just cut the front or the back off a region
C4_Witness ==
  /\ last.kind = "removeLines"
  /\ \E i \in DOMAIN last.pre :
       /\ LinesOf(last.pre[i]) \cap (last.arg[1] .. last.arg[2]) # {}
       /\ LinesOf(last.pre[i]) \ (last.arg[1] .. last.arg[2]) # {}
       /\ ~StrictlyInside(last.pre[i], last.arg[1], last.arg[2])
  /\ Covered(post) # {}

\* C5 (shift): updateRegionsAfterEdit with a nonzero line delta d moves
\* every region that starts below the end line of the edited range from
\* s..e to s+d..e+d and keeps its identifier and its place in the list
C5_Shift ==
  last.kind = "updateRegions" =>
    LET rangeStartLine == last.arg[1]
        rangeEndLine == last.arg[2]
        d == (Len(last.arg[3]) - 1) - (rangeEndLine - rangeStartLine)
        pre == last.pre
    IN  d # 0 =>
          /\ Len(post) = Len(pre)
          /\ \A i \in DOMAIN pre :
               pre[i].startLine > rangeEndLine =>
                 post[i] = [id |-> pre[i].id,
                            startLine |-> pre[i].startLine + d,
                            endLine |-> pre[i].endLine + d,
                            obj |-> pre[i].obj]

\* an edit that removed lines has just moved a region of the store
C5_Witness ==
  /\ last.kind = "updateRegions"
  /\ (Len(last.arg[3]) - 1) - (last.arg[2] - last.arg[1]) < 0
  /\ \E i \in DOMAIN last.pre :
       /\ last.pre[i].startLine > last.arg[2]
       /\ post[i].startLine < last.pre[i].startLine

----------------------------------------------------------------------------
(* Properties of the selection handler *)

\* the last step handled one selection
OneSelection == last.kind = "selection" /\ Len(last.arg) = 1

\* the selection runs from line 0 to the last line of the document
SelectsAll(selection, lines) ==
  selection.start.line = 0 /\ selection.end.line = Len(lines) - 1

\* C6 (dismissal by touch): a selection whose lines a..b overlap a region,
\* and which is not the selection of the entire document (line 0 to the
\* last line), removes the lines a..b from the document's regions
C6_DismissByTouch ==
  OneSelection =>
    LET a == last.arg[1].start.line
        b == last.arg[1].end.line
    IN  (Covered(last.pre) \cap (a .. b) # {} /\ ~SelectsAll(last.arg[1], last.preLines))
          => Covered(post) = Covered(last.pre) \ (a .. b)

\* C7 (select-all guard): a selection from line 0 to the last line of the
\* document leaves the document's regions as they were, and the handler
\* neither notifies nor arms nor performs a save
C7_SelectAllGuard ==
  (OneSelection /\ SelectsAll(last.arg[1], last.preLines)) =>
    /\ post = last.pre
    /\ last.log = <<>>

\* the entire document has just been selected while it had regions
C7_Witness ==
  /\ OneSelection
  /\ SelectsAll(last.arg[1], last.preLines)
  /\ last.pre # <<>>
  /\ post = last.pre

----------------------------------------------------------------------------
(* Properties of the change classifier *)

\* the last step handled an edit event with one content change
OneChange == last.kind = "change" /\ Len(last.arg) = 1

\* the addRegion calls of the last step
Added == SelectSeq(last.log, LAMBDA entry : entry.op = "addRegion")

\* the inserted text covers more than 80% of the document after the edit
CoversDocument(change) ==
  Len(change.text) * 10 > 8 * Len(docs[last.key])

\* a tracking window of the document is open and its timer armed
Tracked(key) ==
  /\ key \in DOMAIN trackingStates
  /\ trackingStates[key].isTracking
  /\ trackingStates[key].timeoutId \in DOMAIN timers

\* C8 (paste threshold, as claimed): a single change whose text has exactly
\* minimumPasteLines lines creates a region while the event is handled; one
\* with minimumPasteLines - 1 lines creates none and is tracked instead
C8_PasteThreshold_Original ==
  OneChange =>
    /\ Len(last.arg[1].text) = config.minimumPasteLines => Added # <<>>
    /\ Len(last.arg[1].text) = config.minimumPasteLines - 1
         => Added = <<>> /\ Tracked(last.key)

\* C8 (paste threshold, amended): a single change whose text has exactly
\* minimumPasteLines lines and does not cover more than 80% of the document
\* creates a region while the event is handled; one with
\* minimumPasteLines - 1 lines creates none and is tracked instead
C8_PasteThreshold ==
  OneChange =>
    /\ (Len(last.arg[1].text) = config.minimumPasteLines /\ ~CoversDocument(last.arg[1]))
         => Added # <<>>
    /\ Len(last.arg[1].text) = config.minimumPasteLines - 1
         => Added = <<>> /\ Tracked(last.key)

\* a text of exactly minimumPasteLines lines has just become a region
C8_Witness ==
  /\ OneChange
  /\ Len(last.arg[1].text) = config.minimumPasteLines
  /\ ~CoversDocument(last.arg[1])
  /\ Added # <<>>
  /\ post # <<>>

\* C9 (paste range): after an event with a single change that is a paste of
\* L lines at line start and does not cover more than 80% of the document,
\* addRegion has been called once, for start..start+L-1; that region is in
\* the store with these bounds and a new identifier, no other region has
\* these bounds, and the tracking state and its timer are as before
C9_PasteRange ==
  (OneChange /\ Len(last.arg[1].text) >= config.minimumPasteLines
             /\ ~CoversDocument(last.arg[1])) =>
    LET start == last.arg[1].range.start.line
        L == Len(last.arg[1].text)
        new == {j \in DOMAIN post : post[j].startLine = start
                                     /\ post[j].endLine = start + L - 1}
    IN  /\ Added = <<LogEntry("addRegion", last.key, start, start + L - 1)>>
        /\ new = {Len(post)}
        /\ post # <<>>
        /\ post[Len(post)].id \notin IdsOf(last.pre)
        /\ {j \in DOMAIN post : post[j].id \notin IdsOf(last.pre)
                                 /\ LinesOf(post[j]) \cap (start .. start + L - 1) # {}}
             = {Len(post)}
        /\ last.preTracking = (IF last.key \in DOMAIN trackingStates
                               THEN <<trackingStates[last.key]>> ELSE <<>>)

\* a paste has just been handled in a document that had regions already
C9_Witness ==
  /\ OneChange
  /\ Len(last.arg[1].text) >= config.minimumPasteLines
  /\ ~CoversDocument(last.arg[1])
  /\ last.pre # <<>>
  /\ Len(post) >= 2

\* C10 (streaming needs both thresholds): a tracking window that closes adds
\* regions only if its characters per second exceed typingSpeedThreshold and
\* its distinct affected lines exceed minimumStreamingLines, both strictly
C10_StreamingThresholds ==
  (last.kind = "debounce" /\ Added # <<>>) =>
    /\ last.preTracking # <<>>
    /\ LET state == last.preTracking[1]
           elapsed == state.lastChangeTime - state.startTime
       IN  /\ state.totalCharacters * 1000 > config.typingSpeedThreshold * elapsed
           /\ Cardinality(state.affectedLines) > config.minimumStreamingLines

\* a tracking window has just closed and added a region
C10_Witness ==
  /\ last.kind = "debounce"
  /\ Added # <<>>
  /\ post # <<>>

----------------------------------------------------------------------------
(* Properties of the tracking window *)

\* the debounce timers pending for a document
DebounceTimers(key) ==
  {h \in DOMAIN timers : timers[h].kind = "debounce" /\ timers[h].key = key}

\* the last step handled an event with one non-paste insertion
TrackedInsertion ==
  /\ OneChange
  /\ ~IsEmptyText(last.arg[1].text)
  /\ ~isPaste(last.arg[1], config)

\* the window the last step's insertion was added to: the open window of the
\* document, or a new one starting now
WindowBefore ==
  IF last.preTracking # <<>> /\ last.preTracking[1].isTracking
  THEN last.preTracking[1]
  ELSE NewTrackingState(now)

\* C11 (debounce coalescing): every open tracking window has exactly one
\* pending debounce timer, due TRACKING_TIMEOUT after the window's last
\* insertion; a non-paste insertion adds its characters and lines to the
\* window that was open, keeps that window's start, and adds no region
C11_DebounceCoalescing ==
  /\ \A key \in DOMAIN trackingStates :
       trackingStates[key].isTracking =>
         /\ DebounceTimers(key) = {trackingStates[key].timeoutId}
         /\ timers[trackingStates[key].timeoutId].due
              = trackingStates[key].lastChangeTime + TRACKING_TIMEOUT
  /\ TrackedInsertion =>
       /\ Added = <<>>
       /\ last.key \in DOMAIN trackingStates
       /\ trackingStates[last.key].isTracking
       /\ trackingStates[last.key].startTime = WindowBefore.startTime
       /\ trackingStates[last.key].lastChangeTime = now
       /\ trackingStates[last.key].totalCharacters
            = WindowBefore.totalCharacters + JoinLength(last.arg[1].text)
       /\ trackingStates[last.key].affectedLines
            = WindowBefore.affectedLines
              \cup (last.arg[1].range.start.line ..
                      last.arg[1].range.start.line + Len(last.arg[1].text) - 1)

\* three insertions of one character each have arrived in one window, and
\* one timer is pending
C11_Witness ==
  /\ TrackedInsertion
  /\ steps = 3
  /\ last.preTracking # <<>>
  /\ last.preTracking[1].isTracking
  /\ last.preTracking[1].totalCharacters = 2
  /\ trackingStates[last.key].totalCharacters = 3
  /\ Cardinality(DebounceTimers(last.key)) = 1

\* the tracking state is Idle: not tracking, accumulators cleared
Idle(state) ==
  /\ ~state.isTracking
  /\ state.totalCharacters = 0
  /\ state.affectedLines = {}

\* C12 (window reset): when the debounce timer has fired, thresholds met or
\* not, the document's tracking state is Idle and no debounce timer is
\* pending for it; a non-paste insertion arriving in an Idle state starts a
\* window at the time of the insertion that holds the characters and lines
\* of this insertion only
C12_WindowReset ==
  /\ last.kind = "debounce" =>
       /\ last.key \in DOMAIN trackingStates
       /\ Idle(trackingStates[last.key])
       /\ DebounceTimers(last.key) = {}
  /\ (TrackedInsertion /\ last.preTracking # <<>> /\ ~last.preTracking[1].isTracking) =>
       /\ Idle(last.preTracking[1])
       /\ trackingStates[last.key].isTracking
       /\ trackingStates[last.key].startTime = now
       /\ trackingStates[last.key].totalCharacters = JoinLength(last.arg[1].text)
       /\ trackingStates[last.key].affectedLines
            = last.arg[1].range.start.line ..
                last.arg[1].range.start.line + Len(last.arg[1].text) - 1

\* an insertion has just started a second window, after the first window,
\* which had collected characters, was closed by its timer
C12_Witness ==
  /\ TrackedInsertion
  /\ last.preTracking # <<>>
  /\ ~last.preTracking[1].isTracking
  /\ last.preTracking[1].startTime < now
  /\ trackingStates[last.key].startTime = now
  /\ trackingStates[last.key].totalCharacters > 0

----------------------------------------------------------------------------
(* Properties of the reconciler *)

\* the "created" notifications of the last step
Created == SelectSeq(last.log, LAMBDA entry : entry.op = "created")

\* the last step handled one paste that replaced the whole of a document
\* that had no regions and whose old text the shadow copy held
ReviewedDocumentReplaced ==
  /\ OneChange
  /\ isPaste(last.arg[1], config)
  /\ last.arg[1] = ReplaceLines(last.preLines, 0, Len(last.preLines) - 1,
                                last.arg[1].text)
  /\ last.pre = <<>>
  /\ last.preShadow = <<last.preLines>>

\* C13 (fingerprint round trip): when a document with no regions is replaced
\* as a whole, in one paste, by a text identical to its old content, which
\* the shadow copy holds, no region is created: addRegion is not called, the
\* callback is not invoked and the document has no regions afterwards
C13_FingerprintIdentity ==
  (ReviewedDocumentReplaced /\ last.arg[1].text = last.preLines) =>
    /\ Added = <<>>
    /\ Created = <<>>
    /\ post = <<>>

\* a document of lines of different lengths, longer than the context
\* window, has been pasted over itself
C13_Witness ==
  /\ ReviewedDocumentReplaced
  /\ last.arg[1].text = last.preLines
  /\ Len(last.preLines) > contextWindow + 1
  /\ Range(last.preLines) = LineTexts
  /\ post = <<>>

\* the lines, counted from 0, in which the pasted text of the last step
\* differs from the old content
AlteredLines ==
  {i \in 0 .. Len(last.preLines) - 1 : last.arg[1].text[i + 1] # last.preLines[i + 1]}

\* C14 (fingerprint, altered line): when a document with no regions is
\* replaced as a whole by a paste of as many lines that differs from the old
\* content in exactly one line, the regions afterwards cover that line and
\* cover no line farther than contextWindow lines from it
C14_AlteredLine ==
  (/\ ReviewedDocumentReplaced
   /\ Len(last.arg[1].text) = Len(last.preLines)
   /\ Cardinality(AlteredLines) = 1) =>
    /\ AlteredLines \subseteq Covered(post)
    /\ \A l \in Covered(post) :
         \A i \in AlteredLines : l - i <= contextWindow /\ i - l <= contextWindow

----------------------------------------------------------------------------
(* Properties of the persistence gate *)

\* the manifest entry getRegions and hasMatchingChecksum find for the path
\* of the last step's document; only used where the entry exists
SavedEntry == last.preManifest[FindFile(last.preManifest, last.key)]

\* the last step opened a document for which the manifest held regions
OpenedWithSavedRegions ==
  /\ last.kind = "open"
  /\ FindFile(last.preManifest, last.key) # 0
  /\ SavedEntry.regions # <<>>

\* C15 (digest gate, restore): when a document is opened for which the
\* manifest holds regions, and the digest of the opened content equals the
\* stored digest, the document's regions after handleDocumentOpen are the
\* saved list, in its order and with its bounds, and the manifest is as before
C15_DigestGateRestore ==
  (OpenedWithSavedRegions /\ SavedEntry.checksum = computeChecksum(docs[last.key])) =>
    /\ post = SavedEntry.regions
    /\ manifest = last.preManifest

\* a document whose regions were saved has been opened with the saved content
C15_Witness ==
  /\ OpenedWithSavedRegions
  /\ SavedEntry.checksum = computeChecksum(docs[last.key])
  /\ post # <<>>
  /\ last.pre = <<>>

\* the manifest has an entry for the path
HasEntry(files, path) == \E i \in DOMAIN files : files[i].documentPath = path

\* C16 (digest gate, discard): when a document is opened for which the
\* manifest holds regions, and the digest of the opened content differs from
\* the stored digest, then after handleDocumentOpen the document has no
\* regions in the store and the manifest has no entry for its path
C16_DigestGateDiscard ==
  (OpenedWithSavedRegions /\ SavedEntry.checksum # computeChecksum(docs[last.key])) =>
    /\ post = <<>>
    /\ ~HasEntry(manifest, last.key)

\* a document changed since its regions were saved has been opened, and the
\* entries of other paths are still in the manifest
C16_Witness ==
  /\ OpenedWithSavedRegions
  /\ SavedEntry.checksum # computeChecksum(docs[last.key])
  /\ ~HasEntry(manifest, last.key)
  /\ manifest # <<>>

\* C17 (gate safety): the store holds restored regions for a document only
\* if the manifest entry they were loaded from carries the digest of the
\* document's content, after the activation as well as after an open
C17_GateSafety ==
  \A key \in DOMAIN docs :
    getRegions(regions, key) # <<>> =>
      /\ HasEntry(manifest, key)
      /\ manifest[FindFile(manifest, key)].checksum = computeChecksum(docs[key])

\* the path the last step's handler saved, if it saved one
SavedPath == IF last.kind = "rename" THEN last.arg ELSE last.key

\* C18 (manifest shape): once loaded, the manifest has at most one entry per
\* path and no entry with an empty region list; when a handler has saved a
\* document that has no regions, the manifest has no entry for its path
C18_ManifestShape ==
  last.kind # "init" =>
    /\ \A i, j \in DOMAIN manifest :
         manifest[i].documentPath = manifest[j].documentPath => i = j
    /\ \A i \in DOMAIN manifest : manifest[i].regions # <<>>
    /\ (last.kind \in {"save", "rename"} /\ getRegions(regions, SavedPath) = <<>>)
         => ~HasEntry(manifest, SavedPath)

\* a file with an entry has been renamed to the path of another entry while
\* no document of the new path had regions: updateFilePath left two entries
\* of the new path, and the save that followed removed both
C18_Witness ==
  /\ last.kind = "rename"
  /\ HasEntry(last.preManifest, last.key)
  /\ HasEntry(last.preManifest, SavedPath)
  /\ getRegions(regions, SavedPath) = <<>>
  /\ manifest = <<>>

\* C19 (rename keeps the manifest entry): when handleFileRename has
\* processed the rename of a file that had a manifest entry, the manifest has
\* an entry under the new path with the digest and the regions of the old
\* entry, and no entry under the old path
C19_RenameKeepsEntry ==
  (last.kind = "rename" /\ HasEntry(last.preManifest, last.key)) =>
    /\ HasEntry(manifest, last.arg)
    /\ manifest[FindFile(manifest, last.arg)].checksum = SavedEntry.checksum
    /\ manifest[FindFile(manifest, last.arg)].regions = SavedEntry.regions
    /\ ~HasEntry(manifest, last.key)

----------------------------------------------------------------------------
(* Properties of the rebinding of a document's regions *)

\* C20 (rebind): after updateDocumentUri(old, new), for any old and new, the
\* regions under new are the regions that were under old before the call,
\* with their ids, bounds and order, and if old and new differ there are no
\* regions under old
C20_Rebind ==
  last.kind = "updateDocumentUri" =>
    /\ getRegions(regions, last.arg) = last.pre
    /\ last.key # last.arg => getRegions(regions, last.key) = <<>>

----------------------------------------------------------------------------
(* Properties of the region lists and of region identity *)

\* C21 (ordered get): in every state getRegions returns the regions of every
\* document in ascending order of startLine
C21_OrderedGet ==
  \A key \in DOMAIN regions :
    \A i, j \in DOMAIN getRegions(regions, key) :
      i < j => getRegions(regions, key)[i].startLine <= getRegions(regions, key)[j].startLine

\* the range a..b takes lines from one end of region r only: r overlaps it
\* and keeps lines on exactly one side of it
Narrowed(r, a, b) ==
  /\ ~(b < r.startLine \/ a > r.endLine)
  /\ (r.startLine < a) # (r.endLine > b)

\* C22 (stable identity): updateRegionsAfterEdit leaves the ids of the
\* document's regions as they were, position by position, and a region that
\* removeLinesFromRegions only narrows is still in the document afterwards
\* under the id it had
C22_StableIdentity ==
  /\ last.kind = "updateRegions" =>
       /\ Len(post) = Len(last.pre)
       /\ \A i \in DOMAIN post : post[i].id = last.pre[i].id
  /\ last.kind = "removeLines" =>
       \A i \in DOMAIN last.pre :
         Narrowed(last.pre[i], last.arg[1], last.arg[2]) =>
           \E j \in DOMAIN post : post[j].id = last.pre[i].id

----------------------------------------------------------------------------
(* Properties of the timers *)

\* the timers of either kind pending for a document
TimersOf(key) == {h \in DOMAIN timers : timers[h].key = key}

\* C23 (no action after close): when a document has been closed it has no
\* regions, no tracking state, and no pending debounce or save timer, so that
\* nothing armed before the close can add a region or write its entry later;
\* in every state the pending timers belong to open documents
C23_NoActionAfterClose ==
  /\ last.kind = "close" =>
       /\ post = <<>>
       /\ last.key \notin DOMAIN trackingStates
       /\ last.key \notin DOMAIN saveTimers
       /\ TimersOf(last.key) = {}
  /\ \A h \in DOMAIN timers : timers[h].key \in DOMAIN docs

\* a document has been closed while its tracking window was open and its
\* debounce timer pending
C23_Witness ==
  /\ last.kind = "close"
  /\ last.preTracking # <<>>
  /\ last.preTracking[1].isTracking
  /\ last.preTracking[1].timeoutId # 0
  /\ TimersOf(last.key) = {}

\* the save timers pending for a document
SaveTimers(key) ==
  {h \in DOMAIN timers : timers[h].kind = "save" /\ timers[h].key = key}

\* what the last step did about saving, in order: immediate saves ("save")
\* and debounced saves being armed ("schedule")
Saves == SelectSeq(last.log, LAMBDA entry : entry.op \in {"save", "schedule"})

\* C24 (single timer per kind): every document has at most one pending
\* debounce timer and at most one pending save timer, the ones its tracking
\* state and the scheduler hold; after a tracked insertion the pending
\* debounce timer is a new one; when the last thing a handler did about
\* saving a document was an immediate save no save timer is pending for it,
\* and when it was arming a debounced save exactly one is, due autoSaveDelay
\* from now
C24_SingleTimer ==
  /\ \A key \in Keys :
       /\ Cardinality(DebounceTimers(key)) <= 1
       /\ Cardinality(SaveTimers(key)) <= 1
       /\ DebounceTimers(key) # {} =>
            /\ key \in DOMAIN trackingStates
            /\ DebounceTimers(key) = {trackingStates[key].timeoutId}
       /\ SaveTimers(key) =
            (IF key \in DOMAIN saveTimers THEN {saveTimers[key]} ELSE {})
  /\ (TrackedInsertion /\ last.preTracking # <<>>) =>
       trackingStates[last.key].timeoutId # last.preTracking[1].timeoutId
  /\ Saves # <<>> =>
       IF Saves[Len(Saves)].op = "save"
       THEN SaveTimers(Saves[Len(Saves)].key) = {}
       ELSE \E h \in DOMAIN timers :
              /\ SaveTimers(Saves[Len(Saves)].key) = {h}
              /\ timers[h].due = now + autoSaveDelay

\* a document was saved while the only timer ever armed, a save timer armed
\* by the step before, was pending: no timer is pending now
C24_Witness ==
  /\ last.kind = "save"
  /\ steps = 3
  /\ nextTimer = 2
  /\ trackingStates = EmptyMap
  /\ timers = EmptyMap
  /\ last.pre # <<>>

----------------------------------------------------------------------------
(* Properties of the ownership of regions and tracking states *)

\* the tracking state of a document, if it has one
TrackingOf(states, key) == IF key \in DOMAIN states THEN <<states[key]>> ELSE <<>>

\* C25 (per-document isolation): a step that handles an edit or a paste, a
\* selection, a debounce timer closing a tracking window, a save timer, an
\* open with or without a restore, a save, a close or a dismissal of one
\* document leaves the regions and the tracking state of every other
\* document as they were
C25_Isolation ==
  [][last'.kind # "rename" =>
       \A other \in Keys \ {last'.key} :
         /\ getRegions(regions', other) = getRegions(regions, other)
         /\ TrackingOf(trackingStates', other) = TrackingOf(trackingStates, other)]_vars

\* a document that was closed has just been opened again and its regions
\* restored from the manifest, while the other document has a region and an
\* open tracking window
C25_Witness ==
  /\ last.kind = "open"
  /\ last.pre = <<>>
  /\ post # <<>>
  /\ \E other \in Keys \ {last.key} :
       /\ getRegions(regions, other) # <<>>
       /\ Tracked(other)

----------------------------------------------------------------------------
(* Further properties of the region store *)

\* C26 (return value of removeLinesFromRegions): the call returns true
\* exactly if a region of the document has a line in the range; when it
\* returns false the document's regions are as before, with ids, bounds and
\* order, and no notification was fired
C26_RemoveLinesReturn ==
  last.kind = "removeLines" =>
    /\ last.ret = (\E i \in DOMAIN last.pre :
                     LinesOf(last.pre[i]) \cap (last.arg[1] .. last.arg[2]) # {})
    /\ last.ret = FALSE => (post = last.pre /\ last.log = <<>>)

\* a range that misses both regions of the document has been removed
C26_Witness ==
  /\ last.kind = "removeLines"
  /\ last.ret = FALSE
  /\ Len(last.pre) = 2
  /\ post = last.pre

\* C27 (shift frame and straddle): updateRegionsAfterEdit neither adds nor
\* removes a region; it leaves every region unchanged when the line delta is
\* 0, and otherwise leaves unchanged every region that ends at or before the
\* end line of the range, and moves only the end of a region that starts at
\* or before that line and ends after it, by the delta
C27_ShiftFrame ==
  last.kind = "updateRegions" =>
    LET changeEndLine == last.arg[2]
        delta == (Len(last.arg[3]) - 1) - (last.arg[2] - last.arg[1])
    IN  /\ Len(post) = Len(last.pre)
        /\ delta = 0 => post = last.pre
        /\ \A i \in DOMAIN last.pre :
             /\ last.pre[i].endLine <= changeEndLine => post[i] = last.pre[i]
             /\ (last.pre[i].startLine <= changeEndLine
                   /\ changeEndLine < last.pre[i].endLine) =>
                  post[i] = [last.pre[i] EXCEPT !.endLine = @ + delta]

\* lines have been inserted inside a region: its end has moved, its start
\* has not
C27_Witness ==
  /\ last.kind = "updateRegions"
  /\ \E i \in DOMAIN last.pre :
       /\ last.pre[i].startLine <= last.arg[2]
       /\ last.arg[2] < last.pre[i].endLine
       /\ post[i].endLine > last.pre[i].endLine
       /\ post[i].startLine = last.pre[i].startLine

----------------------------------------------------------------------------
(* Further properties of the tracking window *)

\* the debounce timer of an open window has just fired
WindowClosed ==
  /\ last.kind = "debounce"
  /\ last.preTracking # <<>>
  /\ last.preTracking[1].isTracking

\* C28 (zero elapsed duration): when a window closes whose insertions all
\* carry the same timestamp (lastChangeTime = startTime) and whose distinct
\* affected lines exceed minimumStreamingLines, the speed condition counts as
\* satisfied and the window produces regions
C28_ZeroDuration ==
  (/\ WindowClosed
   /\ last.preTracking[1].lastChangeTime = last.preTracking[1].startTime
   /\ Cardinality(last.preTracking[1].affectedLines) > config.minimumStreamingLines) =>
    Added # <<>>

\* the maximal runs of consecutive line numbers in a set, as <<first, last>>
MaximalRuns(lines) ==
  {run \in lines \X lines :
     /\ run[1] <= run[2]
     /\ (run[1] .. run[2]) \subseteq lines
     /\ run[1] - 1 \notin lines
     /\ run[2] + 1 \notin lines}

\* both streaming thresholds are exceeded by the window that was closed
ThresholdsExceeded ==
  /\ last.preTracking[1].lastChangeTime > last.preTracking[1].startTime
  /\ last.preTracking[1].totalCharacters * 1000
       > config.typingSpeedThreshold
         * (last.preTracking[1].lastChangeTime - last.preTracking[1].startTime)
  /\ Cardinality(last.preTracking[1].affectedLines) > config.minimumStreamingLines

\* C29 (run grouping): when a window closes with both thresholds exceeded,
\* addRegion is called exactly once for every maximal run of consecutive
\* affected lines of at least minimumStreamingLines lines, with the run's
\* first and last line, in ascending order, and for nothing else; the
\* regions added are appended to the document's regions
C29_RunGrouping ==
  (WindowClosed /\ ThresholdsExceeded) =>
    LET runs == {run \in MaximalRuns(last.preTracking[1].affectedLines) :
                   run[2] - run[1] + 1 >= config.minimumStreamingLines}
    IN  /\ Len(Added) = Cardinality(runs)
        /\ {<<Added[i].startLine, Added[i].endLine>> : i \in DOMAIN Added} = runs
        /\ \A i, j \in DOMAIN Added : i < j => Added[i].endLine < Added[j].startLine
        /\ Len(post) = Len(last.pre) + Len(Added)
        /\ \A i \in DOMAIN Added :
             /\ post[Len(last.pre) + i].startLine = Added[i].startLine
             /\ post[Len(last.pre) + i].endLine = Added[i].endLine

\* a window has closed whose affected lines form a run that is too short
\* and a run that became a region
C29_Witness ==
  /\ WindowClosed
  /\ ThresholdsExceeded
  /\ Len(Added) = 1
  /\ Cardinality(MaximalRuns(last.preTracking[1].affectedLines)) = 2

\* C30 (classifier frame): a step that handles an event of one change which
\* is a paste, or whose inserted text is empty, leaves the document's
\* tracking state as it was (or absent), and leaves the document's pending
\* debounce timers, with their deadlines, as they were
C30_ClassifierFrame ==
  [][(/\ last'.kind = "change"
      /\ Len(last'.arg) = 1
      /\ (IsEmptyText(last'.arg[1].text) \/ isPaste(last'.arg[1], config))) =>
       /\ TrackingOf(trackingStates', last'.key) = TrackingOf(trackingStates, last'.key)
       /\ \A h \in DOMAIN timers \cup DOMAIN timers' :
            (/\ h \in DOMAIN timers
             /\ timers[h].kind = "debounce"
             /\ timers[h].key = last'.key)
            <=> (/\ h \in DOMAIN timers'
                 /\ timers'[h].kind = "debounce"
                 /\ timers'[h].key = last'.key)
       /\ \A h \in DOMAIN timers \cap DOMAIN timers' :
            (timers[h].kind = "debounce" /\ timers[h].key = last'.key) =>
              timers'[h] = timers[h]]_vars

\* a paste has just been handled while the document had an open window
\* whose debounce timer is still pending
C30_Witness ==
  /\ OneChange
  /\ isPaste(last.arg[1], config)
  /\ Added # <<>>
  /\ last.preTracking # <<>>
  /\ last.preTracking[1].isTracking
  /\ last.preTracking[1].totalCharacters > 0
  /\ TrackingOf(trackingStates, last.key) = last.preTracking
  /\ DebounceTimers(last.key) = {last.preTracking[1].timeoutId}

----------------------------------------------------------------------------
(* Properties of the reconciler when the document has regions *)

\* the last step handled one paste that handlePaste gave to the reconciler
Reconciled ==
  /\ OneChange
  /\ isPaste(last.arg[1], config)
  /\ last.preShadow # <<>>
  /\ isFullFilePaste(Len(docs[last.key]), last.arg[1])

\* the lines the reconciler flags when the reviewed old lines are those
\* outside the regions the document had before the event
FlaggedLines ==
  linesToHighlight(last.arg[1].text, last.arg[1].range.start.line,
                   reviewedContentKeys(last.preShadow[1], last.pre))

\* C31 (reconciler reads the regions as they were before the event): the
\* regions added by a reconciled paste are the maximal runs of the pasted
\* lines whose key is not the key of an old line outside every region the
\* document had before the event
C31_PreEditRegions ==
  Reconciled =>
    {<<Added[i].startLine, Added[i].endLine>> : i \in DOMAIN Added}
      = MaximalRuns(FlaggedLines)

\* the pasted lines, as document line numbers
PastedLines ==
  last.arg[1].range.start.line ..
    last.arg[1].range.start.line + Len(last.arg[1].text) - 1

\* the document lines covered by a region added in the last step
NewlyCovered ==
  UNION {Added[i].startLine .. Added[i].endLine : i \in DOMAIN Added}

\* the oldRegions array as handlePaste reads it: the region objects the
\* document's array held when the event arrived, each with the bounds it has
\* at that moment, which are those of the store where the store still holds
\* the object
OldRegionsRead ==
  [i \in DOMAIN last.pre |->
     IF \E j \in DOMAIN post : post[j].obj = last.pre[i].obj
     THEN CHOOSE r \in Range(post) : r.obj = last.pre[i].obj
     ELSE last.pre[i]]

\* the known-reviewed set of the last step: the keys handlePaste collected
\* in its first step, from the old text and the oldRegions array as read
KnownReviewed == reviewedContentKeys(last.preShadow[1], OldRegionsRead)

\* C32 (reconciler output): after a paste that was reconciled, wherever in
\* the document it starts, a pasted line is covered by a region added in the
\* step exactly if its contextual key, computed over the pasted text, is not
\* in the known-reviewed set the reconciler collected; the added regions are
\* the maximal runs of these lines, counted from the paste's start line, one
\* region each, runs of a single line included
C32_ReconcilerOutput ==
  Reconciled =>
    /\ NewlyCovered
         = {line \in PastedLines :
              getContextualKey(last.arg[1].text,
                               line - last.arg[1].range.start.line)
                \notin KnownReviewed}
    /\ Len(Added) = Cardinality(MaximalRuns(NewlyCovered))
    /\ \A i \in DOMAIN Added :
         <<Added[i].startLine, Added[i].endLine>> \in MaximalRuns(NewlyCovered)

\* a reconciled paste that starts below the first line has left a single
\* flagged line covered by a region of its own, and another pasted line
\* uncovered
C32_Witness ==
  /\ Reconciled
  /\ last.arg[1].range.start.line > 0
  /\ \E i \in DOMAIN Added : Added[i].startLine = Added[i].endLine
  /\ PastedLines \ NewlyCovered # {}

----------------------------------------------------------------------------
(* Properties of the notification and of the detection callback *)

\* the regions-changed notifications fired for the document in the last step
Fired ==
  SelectSeq(last.log, LAMBDA entry : entry.op = "fire" /\ entry.key = last.key)

\* C33 (change notification): a step that handles an edit, a selection, a
\* debounce timer, a dismissal or a close and leaves getRegions of its
\* document different from what it was fires the regions-changed
\* notification for the document
C33_ChangeNotification ==
  (/\ last.kind \in {"change", "selection", "debounce", "dismiss", "dismissAll", "close"}
   /\ post # last.pre) =>
    Fired # <<>>

\* C34 (detection callback implies a new region): a step in which the
\* change tracker invokes the regions-created callback adds at least one
\* region to the store
C34_CallbackImpliesRegion ==
  (last.kind \in {"change", "debounce"} /\ Created # <<>>) => Added # <<>>

----------------------------------------------------------------------------
(* Properties of restored regions *)

\* C35 (unique ids): the regions of one document have pairwise distinct ids
C35_UniqueIds ==
  \A key \in DOMAIN regions :
    \A i, j \in DOMAIN regions[key] :
      i # j => regions[key][i].id # regions[key][j].id

----------------------------------------------------------------------------
(* Properties of the saved digest *)

\* the last step wrote the manifest entry of a document
SavedIn(key) ==
  \E i \in DOMAIN last.log : last.log[i].op = "save" /\ last.log[i].key = key

\* C36 (digest and regions belong to the same content): when a step saves
\* an open document and leaves a manifest entry for it, the entry's digest is
\* the digest of the document's content in the editor, which is the content
\* the saved regions were kept for
C36_DigestOfSavedContent ==
  \A key \in DOMAIN docs :
    (SavedIn(key) /\ FindFile(manifest, key) # 0) =>
      manifest[FindFile(manifest, key)].checksum = computeChecksum(docs[key])

----------------------------------------------------------------------------
(* Properties of dismissal by selection *)

\* the lines covered by the regions of a list
CoveredBy(regs) ==
  UNION {regs[i].startLine .. regs[i].endLine : i \in DOMAIN regs}

\* C37 (dismissed lines stay dismissed): when a document is closed and then
\* opened again with the content it had when it was closed, every line
\* covered by a region after the open was covered by a region when the
\* document was closed; lines removed from the regions by a selection
\* before the close are not covered again
C37_DismissedStayDismissed ==
  [][(/\ last.kind = "close"
      /\ last'.kind = "open"
      /\ last'.key = last.key
      /\ docs'[last.key] = last.preLines) =>
       CoveredBy(getRegions(regions', last.key)) \subseteq CoveredBy(last.pre)]_vars

----------------------------------------------------------------------------
(* Properties of a rename during a tracking window *)

\* C38 (rename with a pending debounce): no region is stored under the
\* identity of a file that has been renamed away; a debounce timer armed
\* before the rename adds no region under the old identity when it fires
C38_NoRegionUnderOld ==
  \A key \in Keys \ DOMAIN disk : getRegions(regions, key) = <<>>

----------------------------------------------------------------------------
(* The tracking state machine *)

\* the document has a tracking state with isTracking set
IsTracking(states, key) ==
  key \in DOMAIN states /\ states[key].isTracking

\* in the step just taken the handler of an event of the document tracked
\* an insertion: a change that is neither a deletion nor a paste
InsertionTracked(key) ==
  /\ last'.kind = "change"
  /\ last'.key = key
  /\ \E i \in DOMAIN last'.arg :
       ~IsEmptyText(last'.arg[i].text) /\ ~isPaste(last'.arg[i], config)

\* C39 (tracking state machine): for every document a debounce timer is
\* pending exactly if the document has a tracking state with isTracking
\* set, and it is the timer the state names; a tracking state with
\* isTracking unset has no characters and no affected lines; and the
\* tracking state of a document changes only by a tracked insertion, which
\* leaves it tracking, by its debounce timer firing, which takes it from
\* tracking to idle, or by the close of the document, which removes it
C39_TrackingStateMachine ==
  /\ [](\A key \in Keys :
          /\ DebounceTimers(key) # {} <=> IsTracking(trackingStates, key)
          /\ IsTracking(trackingStates, key) =>
               DebounceTimers(key) = {trackingStates[key].timeoutId}
          /\ (key \in DOMAIN trackingStates /\ ~trackingStates[key].isTracking) =>
               /\ trackingStates[key].totalCharacters = 0
               /\ trackingStates[key].affectedLines = {})
  /\ [][\A key \in Keys :
          TrackingOf(trackingStates', key) # TrackingOf(trackingStates, key) =>
            \/ /\ InsertionTracked(key)
               /\ IsTracking(trackingStates', key)
            \/ /\ last'.kind = "debounce"
               /\ last'.key = key
               /\ IsTracking(trackingStates, key)
               /\ key \in DOMAIN trackingStates'
               /\ ~trackingStates'[key].isTracking
            \/ /\ last'.kind = "close"
               /\ last'.key = key
               /\ key \notin DOMAIN trackingStates']_vars

\* an insertion has just started a new window in a document whose earlier
\* window was closed by its timer
C39_Witness ==
  /\ TrackedInsertion
  /\ last.preTracking # <<>>
  /\ ~last.preTracking[1].isTracking
  /\ IsTracking(trackingStates, last.key)
  /\ DebounceTimers(last.key) = {trackingStates[last.key].timeoutId}

----------------------------------------------------------------------------
(* Quiescence *)

\* C40 (eventual quiescence): with the timers firing fairly and the document
\* staying open, a document that is tracking eventually has an Idle
\* tracking state and no pending debounce timer, and a pending debounced
\* save is eventually followed by a state in which no save timer is pending
\* for the document and its manifest entry holds the regions of the store
C40_Quiescence ==
  \A key \in Keys :
    /\ IsTracking(trackingStates, key)
         ~> (/\ key \in DOMAIN trackingStates
             /\ Idle(trackingStates[key])
             /\ DebounceTimers(key) = {})
    /\ SaveTimers(key) # {}
         ~> (/\ SaveTimers(key) = {}
             /\ key \notin DOMAIN saveTimers
             /\ savedRegions(manifest, key) = getRegions(regions, key))

\* the timer of a debounced save has fired after the window was closed by
\* its timer, and has written regions that differ from those the manifest
\* held before
C40_Witness ==
  /\ last.kind = "savetimer"
  /\ TimersOf(last.key) = {}
  /\ last.key \in DOMAIN trackingStates
  /\ Idle(trackingStates[last.key])
  /\ savedRegions(manifest, last.key) = post
  /\ savedRegions(last.preManifest, last.key) # post

====
